---- MODULE Spec2Model ----
(***************************************************************************)
(* The cryptographic core of src/src/core/encryption.py: the SM4 and       *)
(* Kuznyechik block ciphers with their CBC modes, the SM3 and Streebog     *)
(* hashes, and the EncryptionManager facade.                               *)
(*                                                                         *)
(* A byte is a number in 0..255, a bytes object is a sequence of bytes, a  *)
(* 32-bit word is the sequence of its 4 bytes, most significant first      *)
(* (the order of struct.pack('>I')).  An optional value is <<>> for None   *)
(* and <<v>> for v.                                                        *)
(***************************************************************************)
EXTENDS Integers, Sequences, FiniteSets, TLC

VARIABLES
    cipher,     \* the cipher instance in use: [alg, round_keys], alg "None" before construction
    PI_INV,     \* GOSTKuznyechik.PI_INV, the class-level inverse S-box
    held,       \* what the caller keeps of its last successful encrypt_cbc
    pc,         \* "idle", or "done" when a call has just returned or raised
    call,       \* that call: [op, alg, data, iv, kind, size]
    ret,        \* what it returned: <<value>>, or <<>> when it raised
    err,        \* the exception it raised, "none" when it returned
    decrypted,  \* decrypt_cbc's local `plaintext` before the padding is removed
    nblocks,    \* how many blocks the call put through the block cipher
    hash,       \* the hash object of the call: <<>> or <<its fields>>
    mgr,        \* the EncryptionManager: [sm4_cipher, gost_cipher, keys]
    token,      \* what secrets.token_bytes returned in the call, <<>> when not called
    fed,        \* what the caller has done with its hash object: its class, the bytes
                \* given to update so far, the digest calls, the calls in all
    callers,    \* the concurrent callers of the shared instance: for each its call,
                \* where it is in it, and the locals of decrypt_cbc and decrypt_block
    ctor,       \* the thread that constructs further GOSTKuznyechik instances: where it
                \* is in __init__
    IV,         \* SM3.IV, the class-level list of the eight initial words
    kept,       \* the EncryptedData of an SM4-CBC encrypt that the caller keeps over
                \* later calls of the manager: its plaintext, the SM4 key of the
                \* manager when it was made, the calls made since, and whether
                \* initialize_sm4 was among them
    owned       \* the computations that each own a hash object: which of them made
                \* the last call, whether one has called its object between two
                \* calls of the other, and for each its object, the bytes it has
                \* given to update, and what digest returned or raised

vars == <<cipher, PI_INV, held, pc, call, ret, err, decrypted, nblocks, hash, mgr, token, fed, callers, ctor,
          IV, kept, owned>>

\* The exceptions: the ValueErrors of the module by their message, and what the
\* Python runtime raises by itself.
InvalidKeyLength == "InvalidKeyLength"                \* "... key must be N bytes"
InvalidIVLength == "InvalidIVLength"                  \* "IV must be 16 bytes"
InvalidCiphertextLength == "InvalidCiphertextLength"  \* "Ciphertext length must be multiple of block size"
InvalidPadding == "InvalidPadding"                    \* "Invalid padding"
IndexError == "IndexError"                            \* index out of range
NoError == "none"

(***************************************************************************)
(* Bit and byte utilities                                                  *)
(***************************************************************************)

\* a ^ b on naturals, bit by bit
RECURSIVE BitXor(_, _)
BitXor(a, b) ==
    IF a = 0 THEN b
    ELSE IF b = 0 THEN a
    ELSE ((a + b) % 2) + 2 * BitXor(a \div 2, b \div 2)

\* BitXor on 4-bit values, tabulated
NibbleXor == [a \in 0..15 |-> [b \in 0..15 |-> BitXor(a, b)]]

\* a ^ b on bytes
Xor8(a, b) == 16 * NibbleXor[a \div 16][b \div 16] + NibbleXor[a % 16][b % 16]

\* Python evaluates an argument before the call it is passed to: v is
\* evaluated, then e
ByValue(v, e) == IF v = v THEN e ELSE e

\* bytes(a ^ b for a, b in zip(x, y)): as long as the shorter argument
XorBytes(x, y) ==
    SubSeq([i \in 1..(IF Len(x) < Len(y) THEN Len(x) ELSE Len(y)) |-> Xor8(x[i], y[i])],
           1, IF Len(x) < Len(y) THEN Len(x) ELSE Len(y))

\* bytes([b] * n)
Repeat(b, n) == SubSeq([i \in 1..n |-> b], 1, n)

\* data[i:j] for 0 <= i, in Python's 0-based half-open indexing
Slice(data, i, j) == SubSeq(data, i + 1, IF j > Len(data) THEN Len(data) ELSE j)

\* data[-k:] for k >= 0: -0 is 0, so data[-0:] is all of data
Suffix(data, k) ==
    IF k = 0 \/ k > Len(data) THEN data ELSE SubSeq(data, Len(data) - k + 1, Len(data))

\* data[:-k] for k >= 0: data[:-0] is data[:0], the empty bytes
DropSuffix(data, k) ==
    IF k = 0 THEN <<>> ELSE SubSeq(data, 1, Len(data) - k)

\* all(b == v for b in data)
AllEqual(data, v) == \A i \in 1..Len(data) : data[i] = v

(***************************************************************************)
(* SM4 (class SM4)                                                         *)
(***************************************************************************)

SM4_BLOCK_SIZE == 16
SM4_KEY_SIZE == 16
SM4_ROUNDS == 32

SM4_SBOX ==
   <<214, 144, 233, 254, 204, 225, 61, 183, 22, 182, 20, 194, 40, 251, 44, 5,
   43, 103, 154, 118, 42, 190, 4, 195, 170, 68, 19, 38, 73, 134, 6, 153,
   156, 66, 80, 244, 145, 239, 152, 122, 51, 84, 11, 67, 237, 207, 172, 98,
   228, 179, 28, 169, 201, 8, 232, 149, 128, 223, 148, 250, 117, 143, 63, 166,
   71, 7, 167, 252, 243, 115, 23, 186, 131, 89, 60, 25, 230, 133, 79, 168,
   104, 107, 129, 178, 113, 100, 218, 139, 248, 235, 15, 75, 112, 86, 157, 53,
   30, 36, 14, 94, 99, 88, 209, 162, 37, 34, 124, 59, 1, 33, 120, 135,
   212, 0, 70, 87, 159, 211, 39, 82, 76, 54, 2, 231, 160, 196, 200, 158,
   234, 191, 138, 210, 64, 199, 56, 181, 163, 247, 242, 206, 249, 97, 21, 161,
   224, 174, 93, 164, 155, 52, 26, 85, 173, 147, 50, 48, 245, 140, 177, 227,
   29, 246, 226, 46, 130, 102, 202, 96, 192, 41, 35, 171, 13, 83, 78, 111,
   213, 219, 55, 69, 222, 253, 142, 47, 3, 255, 106, 114, 109, 108, 91, 81,
   141, 27, 175, 146, 187, 221, 188, 127, 17, 217, 92, 65, 31, 16, 90, 216,
   10, 193, 49, 136, 165, 205, 123, 189, 45, 116, 208, 18, 184, 229, 180, 176,
   137, 105, 151, 74, 12, 150, 119, 126, 101, 185, 241, 9, 197, 110, 198, 132,
   24, 240, 125, 236, 58, 220, 77, 32, 121, 238, 95, 62, 215, 203, 57, 72>>

SM4_FK ==
   <<<<163, 177, 186, 198>>, <<86, 170, 51, 80>>, <<103, 125, 145, 151>>, <<178, 112, 34, 220>>>>

SM4_CK ==
   <<<<0, 7, 14, 21>>, <<28, 35, 42, 49>>, <<56, 63, 70, 77>>, <<84, 91, 98, 105>>,
     <<112, 119, 126, 133>>, <<140, 147, 154, 161>>, <<168, 175, 182, 189>>, <<196, 203, 210, 217>>,
     <<224, 231, 238, 245>>, <<252, 3, 10, 17>>, <<24, 31, 38, 45>>, <<52, 59, 66, 73>>,
     <<80, 87, 94, 101>>, <<108, 115, 122, 129>>, <<136, 143, 150, 157>>, <<164, 171, 178, 185>>,
     <<192, 199, 206, 213>>, <<220, 227, 234, 241>>, <<248, 255, 6, 13>>, <<20, 27, 34, 41>>,
     <<48, 55, 62, 69>>, <<76, 83, 90, 97>>, <<104, 111, 118, 125>>, <<132, 139, 146, 153>>,
     <<160, 167, 174, 181>>, <<188, 195, 202, 209>>, <<216, 223, 230, 237>>, <<244, 251, 2, 9>>,
     <<16, 23, 30, 37>>, <<44, 51, 58, 65>>, <<72, 79, 86, 93>>, <<100, 107, 114, 121>>>>

\* x ^ y on 32-bit words
XorWord(x, y) == <<Xor8(x[1], y[1]), Xor8(x[2], y[2]), Xor8(x[3], y[3]), Xor8(x[4], y[4])>>

\* a shift in the place of the rotation: (x << n) & 0xffffffff
SM4_rotl_shift_only(x, n) ==
    LET q == n \div 8
        r == n % 8
        B(i) == IF i + q <= 4 THEN x[i + q] ELSE 0
        R(i) == ((B(i) * 2^r) % 256) + (B(i + 1) \div 2^(8 - r))
    IN  <<R(1), R(2), R(3), R(4)>>

\* _rotl: ((x << n) | (x >> (32 - n))) & 0xffffffff, for 0 < n < 32
SM4_rotl(x, n) ==
    LET q == n \div 8
        r == n % 8
        B(i) == x[((i - 1 + q) % 4) + 1]
        R(i) == ((B(i) * 2^r) % 256) + (B(i + 1) \div 2^(8 - r))
    IN  <<R(1), R(2), R(3), R(4)>>

\* _bytes_to_words that loses the top bit of the first byte
SM4_bytes_to_words_top_bit_lost(data) ==
    <<<<data[1] % 128, data[2], data[3], data[4]>>, SubSeq(data, 5, 8),
      SubSeq(data, 9, 12), SubSeq(data, 13, 16)>>

\* _bytes_to_words of a 16-byte argument
SM4_bytes_to_words(data) ==
    <<SubSeq(data, 1, 4), SubSeq(data, 5, 8), SubSeq(data, 9, 12), SubSeq(data, 13, 16)>>

\* _words_to_bytes of 4 words
SM4_words_to_bytes(words) == words[1] \o words[2] \o words[3] \o words[4]

SM4_sbox_transform(x) ==
    <<SM4_SBOX[x[1] + 1], SM4_SBOX[x[2] + 1], SM4_SBOX[x[3] + 1], SM4_SBOX[x[4] + 1]>>

SM4_l_transform(x) ==
    XorWord(XorWord(XorWord(XorWord(x, SM4_rotl(x, 2)), SM4_rotl(x, 10)),
                    SM4_rotl(x, 18)), SM4_rotl(x, 24))

SM4_l_prime_transform(x) == XorWord(XorWord(x, SM4_rotl(x, 13)), SM4_rotl(x, 23))

SM4_t_transform(x) == SM4_l_transform(SM4_sbox_transform(x))

SM4_t_prime_transform(x) == SM4_l_prime_transform(SM4_sbox_transform(x))

\* a key expansion that returns k whole, the four words of the key included
RECURSIVE SM4_key_rounds_keeps_k(_)
SM4_key_rounds_keeps_k(k) ==
    LET i == Len(k) - 4
    IN  IF i = SM4_ROUNDS THEN k
        ELSE SM4_key_rounds_keeps_k(Append(k,
                 XorWord(k[i + 1], SM4_t_prime_transform(
                     XorWord(XorWord(XorWord(k[i + 2], k[i + 3]), k[i + 4]), SM4_CK[i + 1])))))

\* the loop of _key_expansion: k has 4 + i words on entry to round i
RECURSIVE SM4_key_rounds(_)
SM4_key_rounds(k) ==
    LET i == Len(k) - 4
    IN  IF i = SM4_ROUNDS THEN SubSeq(k, 5, Len(k))
        ELSE SM4_key_rounds(Append(k,
                 XorWord(k[i + 1], SM4_t_prime_transform(
                     XorWord(XorWord(XorWord(k[i + 2], k[i + 3]), k[i + 4]), SM4_CK[i + 1])))))

\* k = [mk[i] ^ FK[i] for i in range(4)]
SM4_xor_fk(mk) ==
    <<XorWord(mk[1], SM4_FK[1]), XorWord(mk[2], SM4_FK[2]),
      XorWord(mk[3], SM4_FK[3]), XorWord(mk[4], SM4_FK[4])>>

SM4_key_expansion(key) == SM4_key_rounds(SM4_xor_fk(SM4_bytes_to_words(key)))

\* the round loop of _encrypt_block (dec = FALSE: round i uses round_keys[i])
\* and of _decrypt_block (dec = TRUE: round i uses round_keys[31-i]); x has
\* 4 + i words on entry to round i
RECURSIVE SM4_rounds(_, _, _)
SM4_rounds(x, round_keys, dec) ==
    LET i == Len(x) - 4
        rk == round_keys[(IF dec THEN 31 - i ELSE i) + 1]
    IN  IF i = SM4_ROUNDS THEN SM4_words_to_bytes(<<x[36], x[35], x[34], x[33]>>)
        ELSE SM4_rounds(Append(x,
                 XorWord(x[i + 1], SM4_t_transform(
                     XorWord(XorWord(XorWord(x[i + 2], x[i + 3]), x[i + 4]), rk)))),
                 round_keys, dec)

\* _encrypt_block that returns the last four words in the order computed
SM4_encrypt_block_unreversed(round_keys, block) ==
    LET r == SM4_rounds(SM4_bytes_to_words(block), round_keys, FALSE)
    IN  SubSeq(r, 13, 16) \o SubSeq(r, 9, 12) \o SubSeq(r, 5, 8) \o SubSeq(r, 1, 4)

SM4_encrypt_block(round_keys, block) ==
    SM4_rounds(SM4_bytes_to_words(block), round_keys, FALSE)

\* _decrypt_block that takes the round keys in the order of encryption
SM4_decrypt_block_forward_keys(round_keys, block) ==
    SM4_rounds(SM4_bytes_to_words(block), round_keys, FALSE)

SM4_decrypt_block(round_keys, block) ==
    SM4_rounds(SM4_bytes_to_words(block), round_keys, TRUE)

\* the round loop of _encrypt_block and _decrypt_block with another function
\* of the class in the place of _t_transform: t = "t_prime" puts
\* _t_prime_transform there, t = "sbox" _sbox_transform, t = "t" leaves
\* _t_transform
RECURSIVE SM4_rounds_with(_, _, _, _)
SM4_rounds_with(t, x, round_keys, dec) ==
    LET i == Len(x) - 4
        rk == round_keys[(IF dec THEN 31 - i ELSE i) + 1]
        arg == XorWord(XorWord(XorWord(x[i + 2], x[i + 3]), x[i + 4]), rk)
        out == IF t = "t_prime" THEN SM4_t_prime_transform(arg)
               ELSE IF t = "sbox" THEN SM4_sbox_transform(arg)
               ELSE SM4_t_transform(arg)
    IN  IF i = SM4_ROUNDS THEN SM4_words_to_bytes(<<x[36], x[35], x[34], x[33]>>)
        ELSE SM4_rounds_with(t, Append(x, XorWord(x[i + 1], out)), round_keys, dec)

\* SM4.__init__ that rejects short keys only
SM4_init_short_only(key) ==
    IF Len(key) < SM4_KEY_SIZE
    THEN [err |-> InvalidKeyLength, round_keys |-> <<>>]
    ELSE [err |-> NoError, round_keys |-> SM4_key_expansion(key)]

\* SM4.__init__: the exception, and the round keys of the instance
SM4_init(key) ==
    IF Len(key) # SM4_KEY_SIZE
    THEN [err |-> InvalidKeyLength, round_keys |-> <<>>]
    ELSE [err |-> NoError, round_keys |-> SM4_key_expansion(key)]

\* padding that adds nothing to a plaintext of whole blocks
SM4_pad_no_full_block(plaintext) ==
    LET pad_len == (SM4_BLOCK_SIZE - (Len(plaintext) % SM4_BLOCK_SIZE)) % SM4_BLOCK_SIZE
    IN  plaintext \o Repeat(pad_len, pad_len)

\* the PKCS7 padding of encrypt_cbc
SM4_pad(plaintext) ==
    LET pad_len == SM4_BLOCK_SIZE - (Len(plaintext) % SM4_BLOCK_SIZE)
    IN  plaintext \o Repeat(pad_len, pad_len)

\* the block loop of encrypt_cbc that XORs every block with the IV
RECURSIVE SM4_cbc_enc_loop_unchained(_, _, _, _, _)
SM4_cbc_enc_loop_unchained(round_keys, plaintext, i, prev_block, ciphertext) ==
    IF i >= Len(plaintext) THEN ciphertext
    ELSE SM4_cbc_enc_loop_unchained(round_keys, plaintext, i + SM4_BLOCK_SIZE, prev_block,
             ciphertext \o SM4_encrypt_block(round_keys,
                 XorBytes(Slice(plaintext, i, i + SM4_BLOCK_SIZE), prev_block)))

\* the block loop of encrypt_cbc from offset i on
RECURSIVE SM4_cbc_enc_loop(_, _, _, _, _)
SM4_cbc_enc_loop(round_keys, plaintext, i, prev_block, ciphertext) ==
    IF i >= Len(plaintext) THEN ciphertext
    ELSE LET encrypted == SM4_encrypt_block(round_keys,
                              XorBytes(Slice(plaintext, i, i + SM4_BLOCK_SIZE), prev_block))
         IN  SM4_cbc_enc_loop(round_keys, plaintext, i + SM4_BLOCK_SIZE,
                              encrypted, ciphertext \o encrypted)

\* encrypt_cbc that rejects short IVs only
SM4_encrypt_cbc_short_iv_only(round_keys, plaintext, iv) ==
    IF Len(iv) < SM4_BLOCK_SIZE
    THEN [err |-> InvalidIVLength, ret |-> <<>>]
    ELSE [err |-> NoError,
          ret |-> <<SM4_cbc_enc_loop(round_keys, SM4_pad(plaintext), 0, iv, <<>>)>>]

SM4_encrypt_cbc(round_keys, plaintext, iv) ==
    IF Len(iv) # SM4_BLOCK_SIZE
    THEN [err |-> InvalidIVLength, ret |-> <<>>]
    ELSE [err |-> NoError,
          ret |-> <<SM4_cbc_enc_loop(round_keys, SM4_pad(plaintext), 0, iv, <<>>)>>]

\* the block loop of decrypt_cbc from offset i on
RECURSIVE SM4_cbc_dec_loop(_, _, _, _, _)
SM4_cbc_dec_loop(round_keys, ciphertext, i, prev_block, plaintext) ==
    IF i >= Len(ciphertext) THEN plaintext
    ELSE SM4_cbc_dec_loop(round_keys, ciphertext, i + SM4_BLOCK_SIZE,
             Slice(ciphertext, i, i + SM4_BLOCK_SIZE),
             plaintext \o XorBytes(SM4_decrypt_block(round_keys,
                                       Slice(ciphertext, i, i + SM4_BLOCK_SIZE)),
                                   prev_block))

\* the end of decrypt_cbc, "Remove PKCS7 padding", on the decrypted blocks
SM4_unpad(plaintext) ==
    IF Len(plaintext) = 0
    THEN [err |-> IndexError, ret |-> <<>>, plaintext |-> plaintext]
    ELSE LET pad_len == plaintext[Len(plaintext)]
         IN  IF pad_len > SM4_BLOCK_SIZE \/ ~AllEqual(Suffix(plaintext, pad_len), pad_len)
             THEN [err |-> InvalidPadding, ret |-> <<>>, plaintext |-> plaintext]
             ELSE [err |-> NoError, ret |-> <<DropSuffix(plaintext, pad_len)>>,
                   plaintext |-> plaintext]

SM4_decrypt_cbc(round_keys, ciphertext, iv) ==
    IF Len(iv) # SM4_BLOCK_SIZE
    THEN [err |-> InvalidIVLength, ret |-> <<>>, plaintext |-> <<>>]
    ELSE IF Len(ciphertext) % SM4_BLOCK_SIZE # 0
    THEN [err |-> InvalidCiphertextLength, ret |-> <<>>, plaintext |-> <<>>]
    ELSE SM4_unpad(SM4_cbc_dec_loop(round_keys, ciphertext, 0, iv, <<>>))

(***************************************************************************)
(* Kuznyechik (class GOSTKuznyechik)                                       *)
(***************************************************************************)

GOST_BLOCK_SIZE == 16
GOST_KEY_SIZE == 32

GOST_PI ==
   <<252, 238, 221, 17, 207, 110, 49, 22, 251, 196, 250, 218, 35, 197, 4, 77,
   233, 119, 240, 219, 147, 46, 153, 186, 23, 54, 241, 187, 20, 205, 95, 193,
   249, 24, 101, 90, 226, 92, 239, 33, 129, 28, 60, 66, 139, 1, 142, 79,
   5, 132, 2, 174, 227, 106, 143, 160, 6, 11, 237, 152, 127, 212, 211, 31,
   235, 52, 44, 81, 234, 200, 72, 171, 242, 42, 104, 162, 253, 58, 206, 204,
   181, 112, 14, 86, 8, 12, 118, 18, 191, 114, 19, 71, 156, 183, 93, 135,
   21, 161, 150, 41, 16, 123, 154, 199, 243, 145, 120, 111, 157, 158, 178, 177,
   50, 117, 25, 61, 255, 53, 138, 126, 109, 84, 198, 128, 195, 189, 13, 87,
   223, 245, 36, 169, 62, 168, 67, 201, 215, 121, 214, 246, 124, 34, 185, 3,
   224, 15, 236, 222, 122, 148, 176, 188, 220, 232, 40, 80, 78, 51, 10, 74,
   167, 151, 96, 115, 30, 0, 98, 68, 26, 184, 56, 130, 100, 159, 38, 65,
   173, 69, 70, 146, 39, 94, 85, 47, 140, 163, 165, 125, 105, 213, 149, 59,
   7, 88, 179, 64, 134, 172, 29, 247, 48, 55, 107, 228, 136, 217, 231, 137,
   225, 27, 131, 73, 76, 63, 248, 254, 141, 83, 170, 144, 202, 216, 133, 97,
   32, 113, 103, 164, 45, 43, 9, 91, 203, 155, 37, 208, 190, 229, 108, 82,
   89, 166, 116, 210, 230, 244, 180, 192, 209, 102, 175, 194, 57, 75, 99, 182>>

GOST_L_VEC ==
   <<148, 32, 133, 16, 194, 192, 1, 251, 1, 192, 194, 16, 133, 32, 148, 1>>

\* an __init__ that starts from an empty table and then fills it
GOST_fill_step_from_zeros(pi_inv, i) ==
    [(IF i = 0 THEN [v1 \in 1..256 |-> 0] ELSE pi_inv) EXCEPT ![GOST_PI[i + 1] + 1] = i]

\* one round of the loop of __init__: self.PI_INV[v] = i, with v = PI[i]
GOST_fill_step(pi_inv, i) ==
    [pi_inv EXCEPT ![GOST_PI[i + 1] + 1] = i]

\* the loop of __init__, "for i, v in enumerate(self.PI): self.PI_INV[v] = i":
\* entry v of the list becomes the last i with PI[i] = v, and stays when
\* there is none
GOST_fill_pi_inv(pi_inv) ==
    [v1 \in 1..256 |->
        LET at == {i \in 0..255 : GOST_PI[i + 1] = v1 - 1}
        IN  IF at = {} THEN pi_inv[v1]
            ELSE CHOOSE i \in at : \A j \in at : j <= i]

\* bytes(self.PI[b] for b in block)
GOST_s_transform(block) ==
    SubSeq([i \in 1..Len(block) |-> GOST_PI[block[i] + 1]], 1, Len(block))

\* bytes(self.PI_INV[b] for b in block)
GOST_s_inv_transform(pi_inv, block) ==
    SubSeq([i \in 1..Len(block) |-> pi_inv[block[i] + 1]], 1, Len(block))

\* the loop of _gf_mul with n rounds to go
RECURSIVE GOST_gf_mul_loop(_, _, _, _)
GOST_gf_mul_loop(a, b, p, n) ==
    IF n = 0 THEN p
    ELSE GOST_gf_mul_loop(
             IF a >= 128 THEN Xor8((a * 2) % 256, 195) ELSE (a * 2) % 256,
             b \div 2,
             IF b % 2 = 1 THEN Xor8(p, a) ELSE p,
             n - 1)

GOST_gf_mul(a, b) == GOST_gf_mul_loop(a, b, 0, 8)

\* _gf_mul(a, L_VEC[i]), tabulated
GOST_gf_mul_L == [a \in 0..255 |-> [i \in 0..15 |-> GOST_gf_mul(a, GOST_L_VEC[i + 1])]]

\* the inner loop of _l_transform from index i on
RECURSIVE GOST_l_sum(_, _, _)
GOST_l_sum(result, i, t) ==
    IF i = 16 THEN t
    ELSE GOST_l_sum(result, i + 1, Xor8(t, GOST_gf_mul_L[result[i + 1]][i]))

\* the outer loop of _l_transform with n rounds to go
RECURSIVE GOST_l_steps(_, _)
GOST_l_steps(result, n) ==
    ByValue(result,
        IF n = 0 THEN result
        ELSE GOST_l_steps(<<GOST_l_sum(result, 0, 0)>> \o SubSeq(result, 1, Len(result) - 1),
                          n - 1))

GOST_l_transform(block) == GOST_l_steps(block, 16)

\* one round of the outer loop of _l_inv_transform: t = result[0], the list
\* moves left by one, its first 15 entries take _gf_mul(t, L_VEC[i]), the
\* last becomes t
GOST_l_inv_step(result) ==
    SubSeq([i \in 1..16 |->
               IF i = 16 THEN result[1]
               ELSE Xor8(result[i + 1], GOST_gf_mul_L[result[1]][i - 1])], 1, 16)

\* the outer loop of _l_inv_transform with n rounds to go
RECURSIVE GOST_l_inv_steps(_, _)
GOST_l_inv_steps(result, n) ==
    ByValue(result,
        IF n = 0 THEN result
        ELSE GOST_l_inv_steps(GOST_l_inv_step(result), n - 1))

GOST_l_inv_transform(block) == GOST_l_inv_steps(block, 16)

\* c[idx] of _key_expansion
GOST_iter_const == [idx \in 0..31 |-> GOST_l_transform(Repeat(0, 15) \o <<idx + 1>>)]

\* the loop over j with the constant XORed in after the substitution and the
\* linear transform
RECURSIVE GOST_feistel_constant_last(_, _, _, _)
GOST_feistel_constant_last(k1, k2, i, j) ==
    ByValue(k1,
        IF j = 8 THEN <<k1, k2>>
        ELSE GOST_feistel_constant_last(
                 XorBytes(XorBytes(GOST_l_transform(GOST_s_transform(k1)),
                                   GOST_iter_const[8 * i + j]), k2),
                 k1, i, j + 1))

\* the loop over j of _key_expansion, from j on
RECURSIVE GOST_feistel(_, _, _, _)
GOST_feistel(k1, k2, i, j) ==
    ByValue(k1,
        IF j = 8 THEN <<k1, k2>>
        ELSE GOST_feistel(
                 XorBytes(GOST_l_transform(GOST_s_transform(
                              XorBytes(k1, GOST_iter_const[8 * i + j]))), k2),
                 k1, i, j + 1))

\* the loop over i of _key_expansion, from i on
RECURSIVE GOST_key_iters(_, _)
GOST_key_iters(round_keys, i) ==
    ByValue(round_keys,
        IF i = 4 THEN round_keys
        ELSE GOST_key_iters(
                 round_keys \o GOST_feistel(round_keys[Len(round_keys) - 1],
                                            round_keys[Len(round_keys)], i, 0),
                 i + 1))

GOST_key_expansion(key) ==
    GOST_key_iters(<<SubSeq(key, 1, 16), SubSeq(key, 17, Len(key))>>, 0)

\* the loop of encrypt_block from round i on, and its last line
RECURSIVE GOST_enc_rounds(_, _, _)
GOST_enc_rounds(round_keys, result, i) ==
    ByValue(result,
        IF i = 9 THEN XorBytes(result, round_keys[10])
        ELSE GOST_enc_rounds(round_keys,
                 GOST_l_transform(GOST_s_transform(XorBytes(result, round_keys[i + 1]))),
                 i + 1))

\* encrypt_block of a 16-byte block
GOST_encrypt_block(round_keys, block) == GOST_enc_rounds(round_keys, block, 0)

\* the loop of decrypt_block from round i down
RECURSIVE GOST_dec_rounds(_, _, _, _)
GOST_dec_rounds(round_keys, pi_inv, result, i) ==
    ByValue(result,
        IF i < 0 THEN result
        ELSE GOST_dec_rounds(round_keys, pi_inv,
                 XorBytes(GOST_s_inv_transform(pi_inv, GOST_l_inv_transform(result)),
                          round_keys[i + 1]),
                 i - 1))

\* decrypt_block of a 16-byte block
GOST_decrypt_block(round_keys, pi_inv, block) ==
    GOST_dec_rounds(round_keys, pi_inv, XorBytes(block, round_keys[10]), 8)

\* GOSTKuznyechik.__init__: the exception, PI_INV after the call, and the
\* round keys of the instance
GOST_init(pi_inv, key) ==
    IF Len(key) # GOST_KEY_SIZE
    THEN [err |-> InvalidKeyLength, PI_INV |-> pi_inv, round_keys |-> <<>>]
    ELSE [err |-> NoError, PI_INV |-> GOST_fill_pi_inv(pi_inv),
          round_keys |-> GOST_key_expansion(key)]

GOST_pad(plaintext) ==
    LET pad_len == GOST_BLOCK_SIZE - (Len(plaintext) % GOST_BLOCK_SIZE)
    IN  plaintext \o Repeat(pad_len, pad_len)

RECURSIVE GOST_cbc_enc_loop(_, _, _, _, _)
GOST_cbc_enc_loop(round_keys, plaintext, i, prev_block, ciphertext) ==
    IF i >= Len(plaintext) THEN ciphertext
    ELSE LET encrypted == GOST_encrypt_block(round_keys,
                              XorBytes(Slice(plaintext, i, i + GOST_BLOCK_SIZE), prev_block))
         IN  GOST_cbc_enc_loop(round_keys, plaintext, i + GOST_BLOCK_SIZE,
                               encrypted, ciphertext \o encrypted)

GOST_encrypt_cbc(round_keys, plaintext, iv) ==
    IF Len(iv) # GOST_BLOCK_SIZE
    THEN [err |-> InvalidIVLength, ret |-> <<>>]
    ELSE [err |-> NoError,
          ret |-> <<GOST_cbc_enc_loop(round_keys, GOST_pad(plaintext), 0, iv, <<>>)>>]

RECURSIVE GOST_cbc_dec_loop(_, _, _, _, _, _)
GOST_cbc_dec_loop(round_keys, pi_inv, ciphertext, i, prev_block, plaintext) ==
    IF i >= Len(ciphertext) THEN plaintext
    ELSE GOST_cbc_dec_loop(round_keys, pi_inv, ciphertext, i + GOST_BLOCK_SIZE,
             Slice(ciphertext, i, i + GOST_BLOCK_SIZE),
             plaintext \o XorBytes(GOST_decrypt_block(round_keys, pi_inv,
                                       Slice(ciphertext, i, i + GOST_BLOCK_SIZE)),
                                   prev_block))

GOST_unpad(plaintext) ==
    IF Len(plaintext) = 0
    THEN [err |-> IndexError, ret |-> <<>>, plaintext |-> plaintext]
    ELSE LET pad_len == plaintext[Len(plaintext)]
         IN  IF pad_len > GOST_BLOCK_SIZE \/ ~AllEqual(Suffix(plaintext, pad_len), pad_len)
             THEN [err |-> InvalidPadding, ret |-> <<>>, plaintext |-> plaintext]
             ELSE [err |-> NoError, ret |-> <<DropSuffix(plaintext, pad_len)>>,
                   plaintext |-> plaintext]

GOST_decrypt_cbc(round_keys, pi_inv, ciphertext, iv) ==
    IF Len(iv) # GOST_BLOCK_SIZE
    THEN [err |-> InvalidIVLength, ret |-> <<>>, plaintext |-> <<>>]
    ELSE IF Len(ciphertext) % GOST_BLOCK_SIZE # 0
    THEN [err |-> InvalidCiphertextLength, ret |-> <<>>, plaintext |-> <<>>]
    ELSE GOST_unpad(GOST_cbc_dec_loop(round_keys, pi_inv, ciphertext, 0, iv, <<>>))

(***************************************************************************)
(* SM3 (class SM3)                                                         *)
(***************************************************************************)

SM3_BLOCK_SIZE == 64
SM3_DIGEST_SIZE == 32

SM3_IV ==
    <<<<115, 128, 22, 111>>, <<73, 20, 178, 185>>, <<23, 36, 66, 215>>, <<218, 138, 6, 0>>,
      <<169, 111, 48, 188>>, <<22, 49, 56, 170>>, <<227, 141, 238, 77>>, <<176, 251, 14, 78>>>>

\* a & b on 4-bit values, tabulated
NibbleAnd == [a \in 0..15 |-> [b \in 0..15 |-> (a + b - BitXor(a, b)) \div 2]]

\* a & b on bytes
And8(a, b) == 16 * NibbleAnd[a \div 16][b \div 16] + NibbleAnd[a % 16][b % 16]

\* x & y, x | y and ~x on 32-bit words
AndWord(x, y) == <<And8(x[1], y[1]), And8(x[2], y[2]), And8(x[3], y[3]), And8(x[4], y[4])>>
OrWord(x, y) ==
    <<x[1] + y[1] - And8(x[1], y[1]), x[2] + y[2] - And8(x[2], y[2]),
      x[3] + y[3] - And8(x[3], y[3]), x[4] + y[4] - And8(x[4], y[4])>>
NotWord(x) == <<255 - x[1], 255 - x[2], 255 - x[3], 255 - x[4]>>

\* (x + y) & 0xffffffff on 32-bit words
AddWord(x, y) ==
    LET lo == (x[2] + y[2]) * 65536 + (x[3] + y[3]) * 256 + x[4] + y[4]
    IN  <<(x[1] + y[1] + (lo \div 16777216)) % 256, (lo \div 65536) % 256,
          (lo \div 256) % 256, lo % 256>>

\* _rotl: ((x << n) | (x >> (32 - n))) & 0xffffffff, for 0 <= n < 32
SM3_rotl(x, n) ==
    LET q == n \div 8
        r == n % 8
        B(i) == x[((i - 1 + q) % 4) + 1]
        R(i) == ((B(i) * 2^r) % 256) + (B(i + 1) \div 2^(8 - r))
    IN  <<R(1), R(2), R(3), R(4)>>

SM3_ff(x, y, z, j) ==
    IF j < 16 THEN XorWord(XorWord(x, y), z)
    ELSE OrWord(OrWord(AndWord(x, y), AndWord(x, z)), AndWord(y, z))

SM3_gg(x, y, z, j) ==
    IF j < 16 THEN XorWord(XorWord(x, y), z)
    ELSE OrWord(AndWord(x, y), AndWord(NotWord(x), z))

SM3_p0(x) == XorWord(XorWord(x, SM3_rotl(x, 9)), SM3_rotl(x, 17))

SM3_p1(x) == XorWord(XorWord(x, SM3_rotl(x, 15)), SM3_rotl(x, 23))

SM3_t(j) == IF j < 16 THEN <<121, 204, 69, 25>> ELSE <<122, 135, 157, 138>>

\* the first line of _compress: the 16 words of a 64-byte block
SM3_block_words(block) ==
    SubSeq([i \in 1..16 |-> SubSeq(block, 4 * i - 3, 4 * i)], 1, 16)

\* "Expand message": w has j words on entry to round j
RECURSIVE SM3_expand(_)
SM3_expand(w) ==
    LET j == Len(w)
    IN  IF j = 68 THEN w
        ELSE SM3_expand(Append(w,
                 XorWord(XorWord(SM3_p1(XorWord(XorWord(w[j - 15], w[j - 8]),
                                                SM3_rotl(w[j - 2], 15))),
                                 SM3_rotl(w[j - 12], 7)),
                         w[j - 5])))

\* ss1 of round j, v = <<a, b, c, d, e, f, g, h>>
SM3_ss1(v, j) ==
    SM3_rotl(AddWord(AddWord(SM3_rotl(v[1], 12), v[5]), SM3_rotl(SM3_t(j), j % 32)), 7)

\* <<a, b, c, d, e, f, g, h>> after round j, given its ss1; w_prime[j] is
\* w[j] ^ w[j+4]
SM3_round_out(v, w, j, ss1) ==
    <<AddWord(AddWord(AddWord(SM3_ff(v[1], v[2], v[3], j), v[4]),
                      XorWord(ss1, SM3_rotl(v[1], 12))),
              XorWord(w[j + 1], w[j + 5])),
      v[1], SM3_rotl(v[2], 9), v[3],
      SM3_p0(AddWord(AddWord(AddWord(SM3_gg(v[5], v[6], v[7], j), v[8]), ss1), w[j + 1])),
      v[5], SM3_rotl(v[6], 19), v[7]>>

\* rounds lo .. hi-1 of the "Compression" loop, in order
RECURSIVE SM3_rounds(_, _, _, _)
SM3_rounds(v, w, lo, hi) ==
    ByValue(v,
        IF hi = lo + 1 THEN SM3_round_out(v, w, lo, SM3_ss1(v, lo))
        ELSE SM3_rounds(SM3_rounds(v, w, lo, (lo + hi) \div 2), w, (lo + hi) \div 2, hi))

\* the last line of _compress
SM3_feed_forward(h, v) ==
    SubSeq([i \in 1..8 |-> XorWord(h[i], v[i])], 1, 8)

\* _compress: self._h after the call
SM3_compress(h, block) ==
    SM3_feed_forward(h, SM3_rounds(h, SM3_expand(SM3_block_words(block)), 0, 64))

\* SM3(): the fields of a new object
\* SM3.__init__ with the class attribute IV as it is: self._h = list(self.IV)
SM3_init(iv) == [h |-> iv, buffer |-> <<>>, length |-> 0]

SM3_new == [h |-> SM3_IV, buffer |-> <<>>, length |-> 0]

\* an "if" in the place of the "while": one block at most leaves the buffer
SM3_drain_once(self) ==
    IF Len(self.buffer) < SM3_BLOCK_SIZE THEN self
    ELSE [self EXCEPT
             !.h = SM3_compress(self.h, SubSeq(self.buffer, 1, SM3_BLOCK_SIZE)),
             !.buffer = SubSeq(self.buffer, SM3_BLOCK_SIZE + 1, Len(self.buffer))]

\* the loop of update and of digest: "while len(self._buffer) >= 64"
RECURSIVE SM3_drain(_)
SM3_drain(self) ==
    ByValue(self,
        IF Len(self.buffer) < SM3_BLOCK_SIZE THEN self
        ELSE SM3_drain([self EXCEPT
                 !.h = SM3_compress(self.h, SubSeq(self.buffer, 1, SM3_BLOCK_SIZE)),
                 !.buffer = SubSeq(self.buffer, SM3_BLOCK_SIZE + 1, Len(self.buffer))]))

\* update: the object after the call
SM3_update(self, data) ==
    SM3_drain([self EXCEPT !.buffer = self.buffer \o data,
                           !.length = self.length + Len(data)])

\* the state of an SM3 object that has compressed the 64-byte blocks i,
\* i + 1, ... of data, each once and in this order, starting from h: the body
\* of the loop of update, block by block
RECURSIVE SM3_fold_blocks(_, _, _)
SM3_fold_blocks(h, data, i) ==
    ByValue(h,
        IF 64 * (i + 1) > Len(data) THEN h
        ELSE SM3_fold_blocks(SM3_compress(h, SubSeq(data, 64 * i + 1, 64 * (i + 1))),
                             data, i + 1))

\* struct.pack('>Q', n) for n < 2^31
PackQ(n) ==
    <<0, 0, 0, 0, (n \div 16777216) % 256, (n \div 65536) % 256, (n \div 256) % 256, n % 256>>

\* the padding of digest with the length in bytes in the place of the length
\* in bits
SM3_padding_byte_length(self) ==
    <<128>> \o Repeat(0, (SM3_BLOCK_SIZE + 55 - (Len(self.buffer) % SM3_BLOCK_SIZE))
                             % SM3_BLOCK_SIZE)
            \o PackQ(self.length)

\* the padding of digest: 0x80, zeros up to 56 mod 64, the bit length
SM3_padding(self) ==
    <<128>> \o Repeat(0, (SM3_BLOCK_SIZE + 55 - (Len(self.buffer) % SM3_BLOCK_SIZE))
                             % SM3_BLOCK_SIZE)
            \o PackQ(self.length * 8)

\* b''.join(struct.pack('>I', h) for h in self._h)
SM3_join(h) == h[1] \o h[2] \o h[3] \o h[4] \o h[5] \o h[6] \o h[7] \o h[8]

\* the object after digest
SM3_digest_state(self) ==
    SM3_drain([self EXCEPT !.buffer = self.buffer \o SM3_padding(self)])

\* a digest that pads and compresses a copy, and leaves the object as it was
SM3_digest_of_copy(self) ==
    [self |-> self, err |-> NoError, ret |-> <<SM3_join(SM3_digest_state(self).h)>>]

\* digest: the object after the call and what it returns
SM3_digest(self) ==
    [self |-> SM3_digest_state(self), err |-> NoError,
     ret |-> <<SM3_join(SM3_digest_state(self).h)>>]

\* SM3.hash(data)
SM3_hash(data) == SM3_digest(SM3_update(SM3_new, data))

(***************************************************************************)
(* Streebog as this module implements it (class GOSTStreebog)              *)
(***************************************************************************)

Streebog_BLOCK_SIZE == 64

InvalidDigestSize == "InvalidDigestSize"    \* "digest_size must be 32 or 64"
ByteRangeError == "ByteRangeError"          \* bytes([n]) with n > 255: "bytes must be in range(0, 256)"

\* GOSTStreebog(digest_size): the exception, and the fields of the new object
Streebog_init(digest_size) ==
    IF digest_size \notin {32, 64}
    THEN [err |-> InvalidDigestSize, self |-> <<>>]
    ELSE [err |-> NoError,
          self |-> <<[digest_size |-> digest_size,
                      h |-> Repeat(IF digest_size = 32 THEN 1 ELSE 0, 64),
                      n |-> Repeat(0, 64),
                      sigma |-> Repeat(0, 64),
                      buffer |-> <<>>]>>]

\* the loop of _add_mod512: result has i bytes on entry to round i
RECURSIVE Streebog_add_loop(_, _, _, _)
Streebog_add_loop(a, b, result, carry) ==
    IF Len(result) = 64 THEN result
    ELSE Streebog_add_loop(a, b,
             Append(result, (a[Len(result) + 1] + b[Len(result) + 1] + carry) % 256),
             (a[Len(result) + 1] + b[Len(result) + 1] + carry) \div 256)

Streebog_add_mod512(a, b) == Streebog_add_loop(a, b, <<>>, 0)

Streebog_xor(a, b) == XorBytes(a, b)

Streebog_s_transform(block) ==
    SubSeq([i \in 1..Len(block) |-> GOST_PI[block[i] + 1]], 1, Len(block))

\* _g, the compression function of this implementation
Streebog_g(h, n, m) ==
    Streebog_xor(Streebog_xor(Streebog_s_transform(Streebog_xor(h, n)), m), h)

\* the loop of update
RECURSIVE Streebog_drain(_)
Streebog_drain(self) ==
    ByValue(self,
        IF Len(self.buffer) < Streebog_BLOCK_SIZE THEN self
        ELSE Streebog_drain([self EXCEPT
                 !.buffer = SubSeq(self.buffer, Streebog_BLOCK_SIZE + 1, Len(self.buffer)),
                 !.h = Streebog_g(self.h, self.n, SubSeq(self.buffer, 1, Streebog_BLOCK_SIZE)),
                 !.n = Streebog_add_mod512(self.n, Repeat(0, 63) \o <<2>>),
                 !.sigma = Streebog_add_mod512(self.sigma,
                               SubSeq(self.buffer, 1, Streebog_BLOCK_SIZE))]))

\* the object that has compressed the 64-byte blocks i, i + 1, ... of data,
\* each once and in this order, starting from self: the body of the loop of
\* update, block by block
RECURSIVE Streebog_fold_blocks(_, _, _)
Streebog_fold_blocks(self, data, i) ==
    ByValue(self,
        IF 64 * (i + 1) > Len(data) THEN self
        ELSE Streebog_fold_blocks(
                 [self EXCEPT
                     !.h = Streebog_g(self.h, self.n, SubSeq(data, 64 * i + 1, 64 * (i + 1))),
                     !.n = Streebog_add_mod512(self.n, Repeat(0, 63) \o <<2>>),
                     !.sigma = Streebog_add_mod512(self.sigma,
                                   SubSeq(data, 64 * i + 1, 64 * (i + 1)))],
                 data, i + 1))

\* update that puts data in the place of the pending bytes
Streebog_update_overwrites(self, data) ==
    Streebog_drain([self EXCEPT !.buffer = data])

\* update: the object after the call
Streebog_update(self, data) ==
    Streebog_drain([self EXCEPT !.buffer = self.buffer \o data])

\* "padded" of digest: remaining + bytes([0x01]) + bytes(pad_len - 1)
Streebog_padded(self) ==
    self.buffer \o <<1>> \o Repeat(0, Streebog_BLOCK_SIZE - Len(self.buffer) - 1)

\* the end of digest, from "self._n = ..." on, given the object after the
\* final compression
Streebog_finish(self, padded) ==
    [self EXCEPT
        !.n = Streebog_add_mod512(self.n, <<Len(self.buffer) * 8>> \o Repeat(0, 63)),
        !.sigma = Streebog_add_mod512(self.sigma, padded),
        !.h = Streebog_g(
                  Streebog_g(self.h, Repeat(0, 64),
                      Streebog_add_mod512(self.n, <<Len(self.buffer) * 8>> \o Repeat(0, 63))),
                  Repeat(0, 64),
                  Streebog_add_mod512(self.sigma, padded))]

\* what digest returns of the final h
Streebog_output(self) ==
    IF self.digest_size = 32 THEN SubSeq(self.h, 33, 64) ELSE self.h

\* digest: the object after the call, the exception, and what it returns;
\* bytes([len(self._buffer) * 8]) raises when the buffer has 32 bytes or more,
\* after the final compression has replaced self._h
Streebog_digest(self) ==
    IF Len(self.buffer) * 8 > 255
    THEN [self |-> [self EXCEPT !.h = Streebog_g(self.h, self.n, Streebog_padded(self))],
          err |-> ByteRangeError, ret |-> <<>>]
    ELSE [self |-> Streebog_finish(
                       [self EXCEPT !.h = Streebog_g(self.h, self.n, Streebog_padded(self))],
                       Streebog_padded(self)),
          err |-> NoError,
          ret |-> <<Streebog_output(Streebog_finish(
                       [self EXCEPT !.h = Streebog_g(self.h, self.n, Streebog_padded(self))],
                       Streebog_padded(self)))>>]

\* GOSTStreebog.hash(data, digest_size)
Streebog_hash(data, digest_size) ==
    IF Streebog_init(digest_size).err # NoError
    THEN [self |-> <<>>, err |-> Streebog_init(digest_size).err, ret |-> <<>>]
    ELSE Streebog_digest(Streebog_update(Streebog_init(digest_size).self[1], data))

(***************************************************************************)
(* The inputs of the cipher specification                                  *)
(***************************************************************************)

MaxLen == 17     \* plaintexts of 0..MaxLen bytes
NumKeys == 2     \* keys per key length
NumIVs == 2      \* IVs per IV length

\* n bytes that depend on seed
Bytes(seed, n) ==
    SubSeq([i \in 1..n |-> (seed * 89 + i * 37 + seed * i * i) % 256], 1, n)

Algs == {"SM4", "GOST"}

KeyLens == {0, 15, 16, 17, 31, 32, 33}
Keys == {Bytes(s, n) : s \in 1..NumKeys, n \in KeyLens}

IVLens == {0, 15, 16, 17}
IVs == {Bytes(100 + s, n) : s \in 1..NumIVs, n \in IVLens}

\* one plaintext of each length, and those whose last bytes look like padding
Plaintexts ==
    {Bytes(200, n) : n \in 0..MaxLen}
        \cup {<<1>>, <<2, 2>>, <<0>>, Repeat(16, 16), Repeat(0, 16), Repeat(7, 15)}

\* data with bit k (0 the most significant bit of the first byte) flipped
FlipBit(data, k) ==
    [data EXCEPT ![(k \div 8) + 1] = Xor8(data[(k \div 8) + 1], 2^(7 - (k % 8)))]

\* the bits of a ciphertext the tampering caller flips: the first, the last,
\* and one in the middle
TamperBits(ct) == {0, 4 * Len(ct) + 3, 8 * Len(ct) - 1}

\* the key and the block of the example of GB/T 32907-2016, and what the
\* standard says the block encrypts to
SM4_vector_key == <<1, 35, 69, 103, 137, 171, 205, 239, 254, 220, 186, 152, 118, 84, 50, 16>>
SM4_vector_ciphertext ==
    <<104, 30, 223, 52, 210, 6, 150, 94, 134, 179, 233, 79, 83, 110, 66, 70>>

\* the blocks a caller gives to the block operations
Blocks == {SM4_vector_key, SM4_vector_ciphertext, Bytes(60, 16)}

\* ciphertexts a caller makes up
RawCiphertexts == {<<>>, Bytes(50, 15), Bytes(50, 16), Bytes(50, 17), Bytes(50, 32)}

\* what a caller wants a forged ciphertext to decrypt to: every kind of last
\* block the padding check can meet
Targets ==
    {Repeat(0, 16), Repeat(9, 15) \o <<0>>, Repeat(16, 16), Repeat(17, 16),
     Repeat(9, 15) \o <<1>>, Repeat(9, 13) \o <<3, 3, 3>>, Repeat(9, 13) \o <<3, 2, 3>>,
     Repeat(9, 13) \o <<4, 3, 3>>, <<1>> \o Repeat(16, 15), Repeat(255, 16)}

(***************************************************************************)
(* The cipher specification: one cipher instance and its caller            *)
(***************************************************************************)

NoCipher == [alg |-> "None", round_keys |-> <<>>]
NoData == [ok |-> FALSE, alg |-> "None", plaintext |-> <<>>, iv |-> <<>>, ciphertext |-> <<>>]
NoCall == [op |-> "none", alg |-> "None", data |-> <<>>, iv |-> <<>>, kind |-> "none",
           size |-> 0]

\* no hash object in the caller's hands
NoFed == [kind |-> "none", data |-> <<>>, digests |-> 0, ops |-> 0]

\* the threads that call the shared instance, and a thread in no call
Callers == {1, 2}
NoCaller == [pc |-> "idle", op |-> "none", data |-> <<>>, iv |-> <<>>, i |-> 0, round |-> 0,
             result |-> <<>>, prev_block |-> <<>>, plaintext |-> <<>>, err |-> NoError,
             ret |-> <<>>]

\* the constructing thread outside __init__
NoCtor == [pc |-> "idle", i |-> 0]

\* EncryptionManager(): no cipher, no key
NoMgr == [sm4_cipher |-> <<>>, gost_cipher |-> <<>>, keys |-> [sm4 |-> <<>>, gost |-> <<>>]]

\* the caller keeps nothing
NoKept == [ok |-> FALSE, data |-> <<>>, plaintext |-> <<>>, key |-> <<>>, later |-> 0,
           rekeyed |-> FALSE]

Computations == {1, 2}

\* a computation that has no object
NoComputation == [kind |-> "none", size |-> 0, obj |-> <<>>, data |-> <<>>, ops |-> 0,
                  digested |-> FALSE, err |-> NoError, ret |-> <<>>]

NoOwned == [last |-> 0, mixed |-> FALSE, of |-> [c \in Computations |-> NoComputation]]

Init ==
    /\ cipher = NoCipher
    /\ PI_INV = [i \in 1..256 |-> 0]
    /\ held = NoData
    /\ pc = "idle"
    /\ call = NoCall
    /\ ret = <<>>
    /\ err = NoError
    /\ decrypted = <<>>
    /\ nblocks = 0
    /\ hash = <<>>
    /\ mgr = NoMgr
    /\ token = <<>>
    /\ fed = NoFed
    /\ callers = [t \in Callers |-> NoCaller]
    /\ ctor = NoCtor
    /\ IV = SM3_IV
    /\ kept = NoKept
    /\ owned = NoOwned

\* cipher = SM4(key) or cipher = GOSTKuznyechik(key)
Construct(alg, key) ==
    /\ pc = "idle"
    /\ cipher = NoCipher
    /\ \E r \in {IF alg = "SM4" THEN SM4_init(key) ELSE GOST_init(PI_INV, key)} :
           /\ err' = r.err
           /\ cipher' = IF r.err = NoError
                        THEN [alg |-> alg, round_keys |-> r.round_keys]
                        ELSE cipher
           /\ PI_INV' = IF alg = "GOST" THEN r.PI_INV ELSE PI_INV
    /\ pc' = "done"
    /\ call' = [op |-> "init", alg |-> alg, data |-> key, iv |-> <<>>, kind |-> "none",
                size |-> 0]
    /\ ret' = <<>>
    /\ UNCHANGED <<held, decrypted, nblocks, hash, mgr, token, fed, callers, ctor, IV, kept, owned>>

\* cipher.encrypt_cbc(plaintext, iv)
EncryptCbc(plaintext, iv) ==
    /\ pc = "idle"
    /\ cipher # NoCipher
    /\ held = NoData
    /\ \E r \in {IF cipher.alg = "SM4"
                 THEN SM4_encrypt_cbc(cipher.round_keys, plaintext, iv)
                 ELSE GOST_encrypt_cbc(cipher.round_keys, plaintext, iv)} :
           /\ err' = r.err
           /\ ret' = r.ret
           /\ nblocks' = IF r.err = NoError THEN Len(r.ret[1]) \div 16 ELSE 0
    /\ pc' = "done"
    /\ call' = [op |-> "encrypt_cbc", alg |-> cipher.alg, data |-> plaintext, iv |-> iv,
                kind |-> "none", size |-> 0]
    /\ decrypted' = <<>>
    /\ UNCHANGED <<cipher, PI_INV, held, hash, mgr, token, fed, callers, ctor, IV, kept, owned>>

\* cipher.decrypt_cbc(ciphertext, iv); kind says where the caller has the
\* arguments from
DecryptCbc(ciphertext, iv, kind) ==
    /\ pc = "idle"
    /\ cipher # NoCipher
    /\ \E r \in {IF cipher.alg = "SM4"
                 THEN SM4_decrypt_cbc(cipher.round_keys, ciphertext, iv)
                 ELSE GOST_decrypt_cbc(cipher.round_keys, PI_INV, ciphertext, iv)} :
           /\ err' = r.err
           /\ ret' = r.ret
           /\ nblocks' = Len(r.plaintext) \div 16
           /\ decrypted' = r.plaintext
    /\ pc' = "done"
    /\ call' = [op |-> "decrypt_cbc", alg |-> cipher.alg, data |-> ciphertext, iv |-> iv,
                kind |-> kind, size |-> 0]
    /\ UNCHANGED <<cipher, PI_INV, held, hash, mgr, token, fed, callers, ctor, IV, kept, owned>>

\* the caller decrypts what encrypt_cbc gave it, with the IV it used
DecryptHeld ==
    /\ held.ok
    /\ DecryptCbc(held.ciphertext, held.iv, "roundtrip")

\* the caller decrypts it with one bit flipped
DecryptTampered ==
    /\ held.ok
    /\ \E k \in TamperBits(held.ciphertext) :
           DecryptCbc(FlipBit(held.ciphertext, k), held.iv, "tampered")

\* the caller decrypts bytes of its own
DecryptRaw ==
    /\ ~held.ok
    /\ \E c \in RawCiphertexts, iv \in IVs : DecryptCbc(c, iv, "raw")

\* the block decryption of the instance
DecryptBlock(block) ==
    IF cipher.alg = "SM4" THEN SM4_decrypt_block(cipher.round_keys, block)
    ELSE GOST_decrypt_block(cipher.round_keys, PI_INV, block)

\* the block encryption of the instance
EncryptBlock(block) ==
    IF cipher.alg = "SM4" THEN SM4_encrypt_block(cipher.round_keys, block)
    ELSE GOST_encrypt_block(cipher.round_keys, block)

\* cipher._encrypt_block(block), cipher._decrypt_block(block) of SM4 and
\* cipher.encrypt_block(block), cipher.decrypt_block(block) of Kuznyechik
BlockCall(op, block) ==
    /\ pc = "idle"
    /\ cipher # NoCipher
    /\ ~held.ok
    /\ ret' = <<IF op = "encrypt_block" THEN EncryptBlock(block) ELSE DecryptBlock(block)>>
    /\ err' = NoError
    /\ nblocks' = 1
    /\ decrypted' = <<>>
    /\ pc' = "done"
    /\ call' = [op |-> op, alg |-> cipher.alg, data |-> block, iv |-> <<>>, kind |-> "none",
                size |-> 0]
    /\ UNCHANGED <<cipher, PI_INV, held, hash, mgr, token, fed, callers, ctor, IV, kept, owned>>

\* cipher._l_transform(block) and cipher._l_inv_transform(block) of a
\* Kuznyechik instance
LinearCall(op, block) ==
    /\ pc = "idle"
    /\ cipher.alg = "GOST"
    /\ ~held.ok
    /\ ret' = <<IF op = "l_transform" THEN GOST_l_transform(block)
                ELSE GOST_l_inv_transform(block)>>
    /\ err' = NoError
    /\ nblocks' = 0
    /\ decrypted' = <<>>
    /\ pc' = "done"
    /\ call' = [op |-> op, alg |-> cipher.alg, data |-> block, iv |-> <<>>, kind |-> "none",
                size |-> 0]
    /\ UNCHANGED <<cipher, PI_INV, held, hash, mgr, token, fed, callers, ctor, IV, kept, owned>>

\* the caller decrypts a block with the IV that makes it decrypt to target
DecryptForged ==
    /\ ~held.ok
    /\ cipher # NoCipher
    /\ \E target \in Targets :
           DecryptCbc(Bytes(60, 16), XorBytes(DecryptBlock(Bytes(60, 16)), target), "forged")

\* the call is over: the caller keeps what a successful encrypt_cbc returned
Return ==
    /\ pc = "done"
    /\ pc' = "idle"
    /\ held' = IF call.op = "encrypt_cbc" /\ err = NoError
               THEN [ok |-> TRUE, alg |-> call.alg, plaintext |-> call.data, iv |-> call.iv,
                     ciphertext |-> ret[1]]
               ELSE held
    /\ call' = NoCall
    /\ ret' = <<>>
    /\ err' = NoError
    /\ decrypted' = <<>>
    /\ nblocks' = 0
    /\ UNCHANGED <<cipher, PI_INV, hash, mgr, token, fed, callers, ctor, IV, kept, owned>>

\* the caller drops the ciphertext it holds
Discard ==
    /\ pc = "idle"
    /\ held.ok
    /\ held' = NoData
    /\ UNCHANGED <<cipher, PI_INV, pc, call, ret, err, decrypted, nblocks, hash, mgr, token, fed, callers, ctor,
                   IV, kept, owned>>

Next ==
    \/ \E alg \in Algs, key \in Keys \cup {SM4_vector_key} : Construct(alg, key)
    \/ \E p \in Plaintexts, iv \in IVs : EncryptCbc(p, iv)
    \/ DecryptHeld
    \/ DecryptTampered
    \/ DecryptRaw
    \/ DecryptForged
    \/ \E op \in {"encrypt_block", "decrypt_block"}, block \in Blocks : BlockCall(op, block)
    \/ \E op \in {"l_transform", "l_inv_transform"}, block \in Blocks : LinearCall(op, block)
    \/ Return
    \/ Discard

Spec == Init /\ [][Next]_vars

(***************************************************************************)
(* The hash specification: the one-call hashes of EncryptionManager        *)
(***************************************************************************)

MaxHashLen == 66     \* data of 0..MaxHashLen bytes, and of the lengths below

\* every residue modulo 64, and lengths of two and three blocks
HashLens == (0..MaxHashLen) \cup {95, 96, 127, 128}
HashData == {Bytes(7, n) : n \in HashLens}
DigestSizes == {32, 48, 64}

\* manager.hash_sm3(data)
HashSM3(data) ==
    /\ pc = "idle"
    /\ \E r \in {SM3_hash(data)} :
           /\ err' = r.err
           /\ ret' = r.ret
           /\ hash' = <<r.self>>
    /\ pc' = "done"
    /\ call' = [op |-> "hash_sm3", alg |-> "SM3", data |-> data, iv |-> <<>>,
                kind |-> "none", size |-> 0]
    /\ UNCHANGED <<cipher, PI_INV, held, decrypted, nblocks, mgr, token, fed, callers, ctor, IV, kept, owned>>

\* manager.hash_streebog(data, digest_size)
HashStreebog(data, digest_size) ==
    /\ pc = "idle"
    /\ \E r \in {Streebog_hash(data, digest_size)} :
           /\ err' = r.err
           /\ ret' = r.ret
           /\ hash' = IF r.err = InvalidDigestSize THEN <<>> ELSE <<r.self>>
    /\ pc' = "done"
    /\ call' = [op |-> "hash_streebog", alg |-> "STREEBOG", data |-> data, iv |-> <<>>,
                kind |-> "none", size |-> digest_size]
    /\ UNCHANGED <<cipher, PI_INV, held, decrypted, nblocks, mgr, token, fed, callers, ctor, IV, kept, owned>>

\* the call is over, its hash object is gone
HashReturn ==
    /\ pc = "done"
    /\ pc' = "idle"
    /\ call' = NoCall
    /\ ret' = <<>>
    /\ err' = NoError
    /\ hash' = <<>>
    /\ UNCHANGED <<cipher, PI_INV, held, decrypted, nblocks, mgr, token, fed, callers, ctor, IV, kept, owned>>

NextHash ==
    \/ \E data \in HashData : HashSM3(data)
    \/ \E data \in HashData, digest_size \in DigestSizes : HashStreebog(data, digest_size)
    \/ HashReturn

SpecHash == Init /\ [][NextHash]_vars

(***************************************************************************)
(* The streaming specification: a caller with one SM3 or GOSTStreebog      *)
(* object, which it updates chunk by chunk and digests                     *)
(***************************************************************************)

MaxOps == 4      \* update and digest calls on one object

\* the chunk lengths: empty, one that makes the buffer cross a block boundary,
\* a whole block, more than two blocks
ChunkLens == {0, 33, 64, 130}

\* the caller feeds consecutive pieces of one stream of bytes
NextChunk(n) == SubSeq(Bytes(7, Len(fed.data) + n), Len(fed.data) + 1, Len(fed.data) + n)

\* h = SM3()
StreamNewSM3 ==
    /\ pc = "idle"
    /\ hash = <<>>
    /\ hash' = <<SM3_new>>
    /\ fed' = [kind |-> "SM3", data |-> <<>>, digests |-> 0, ops |-> 0]
    /\ pc' = "done"
    /\ call' = [op |-> "new", alg |-> "SM3", data |-> <<>>, iv |-> <<>>,
                kind |-> "none", size |-> 0]
    /\ err' = NoError
    /\ ret' = <<>>
    /\ UNCHANGED <<cipher, PI_INV, held, decrypted, nblocks, mgr, token, callers, ctor, IV, kept, owned>>

\* h = GOSTStreebog(digest_size)
StreamNewStreebog(digest_size) ==
    /\ pc = "idle"
    /\ hash = <<>>
    /\ \E r \in {Streebog_init(digest_size)} :
           /\ err' = r.err
           /\ hash' = r.self
           /\ fed' = IF r.err = NoError
                     THEN [kind |-> "STREEBOG", data |-> <<>>, digests |-> 0, ops |-> 0]
                     ELSE NoFed
    /\ pc' = "done"
    /\ call' = [op |-> "new", alg |-> "STREEBOG", data |-> <<>>, iv |-> <<>>,
                kind |-> "none", size |-> digest_size]
    /\ ret' = <<>>
    /\ UNCHANGED <<cipher, PI_INV, held, decrypted, nblocks, mgr, token, callers, ctor, IV, kept, owned>>

\* h.update(data)
StreamUpdate(data) ==
    /\ pc = "idle"
    /\ hash # <<>>
    /\ fed.ops < MaxOps
    /\ hash' = IF fed.kind = "SM3" THEN <<SM3_update(hash[1], data)>>
               ELSE <<Streebog_update(hash[1], data)>>
    /\ fed' = [fed EXCEPT !.data = fed.data \o data, !.ops = fed.ops + 1]
    /\ pc' = "done"
    /\ call' = [op |-> "update", alg |-> fed.kind, data |-> data, iv |-> <<>>,
                kind |-> "none", size |-> 0]
    /\ err' = NoError
    /\ ret' = <<>>
    /\ UNCHANGED <<cipher, PI_INV, held, decrypted, nblocks, mgr, token, callers, ctor, IV, kept, owned>>

\* h.digest()
StreamDigest ==
    /\ pc = "idle"
    /\ hash # <<>>
    /\ fed.ops < MaxOps
    /\ \E r \in {IF fed.kind = "SM3" THEN SM3_digest(hash[1]) ELSE Streebog_digest(hash[1])} :
           /\ err' = r.err
           /\ ret' = r.ret
           /\ hash' = <<r.self>>
    /\ fed' = [fed EXCEPT !.digests = fed.digests + 1, !.ops = fed.ops + 1]
    /\ pc' = "done"
    /\ call' = [op |-> "digest", alg |-> fed.kind, data |-> <<>>, iv |-> <<>>,
                kind |-> "none", size |-> 0]
    /\ UNCHANGED <<cipher, PI_INV, held, decrypted, nblocks, mgr, token, callers, ctor, IV, kept, owned>>

\* the call is over; the caller keeps its object
StreamReturn ==
    /\ pc = "done"
    /\ pc' = "idle"
    /\ call' = NoCall
    /\ ret' = <<>>
    /\ err' = NoError
    /\ UNCHANGED <<cipher, PI_INV, held, decrypted, nblocks, hash, mgr, token, fed, callers, ctor,
                   IV, kept, owned>>

\* the caller lets go of its object
StreamDrop ==
    /\ pc = "idle"
    /\ hash # <<>>
    /\ hash' = <<>>
    /\ fed' = NoFed
    /\ UNCHANGED <<cipher, PI_INV, held, pc, call, ret, err, decrypted, nblocks, mgr, token, callers, ctor,
                   IV, kept, owned>>

NextStream ==
    \/ StreamNewSM3
    \/ \E digest_size \in DigestSizes : StreamNewStreebog(digest_size)
    \/ \E n \in ChunkLens : StreamUpdate(NextChunk(n))
    \/ StreamDigest
    \/ StreamReturn
    \/ StreamDrop

SpecStream == Init /\ [][NextStream]_vars

(***************************************************************************)
(* The concurrent specification: one instance shared by the threads of     *)
(* Callers, and a thread that constructs further GOSTKuznyechik instances. *)
(* A thread switch can fall between any two reads and writes of PI_INV:    *)
(* __init__ is a step for each entry it writes, decrypt_cbc of Kuznyechik  *)
(* a step for each call of _s_inv_transform. What reads nothing that is    *)
(* ever written (encrypt_cbc, and SM4) is one step.                        *)
(***************************************************************************)

\* the keys of the shared instance, and what the callers pass
SharedKey(alg) == IF alg = "SM4" THEN Bytes(1, 16) ELSE Bytes(1, 32)
SharedPlaintext == Bytes(200, 5)
SharedCiphertext == Bytes(60, 16)
SharedTarget == Repeat(9, 13) \o <<3, 3, 3>>

\* PI_INV as the construction of an instance leaves it
FilledPI_INV == GOST_fill_pi_inv([v1 \in 1..256 |-> 0])

\* SM4(key) and GOSTKuznyechik(key) with the shared keys
SharedInit ==
    [alg \in Algs |-> IF alg = "SM4" THEN SM4_init(SharedKey(alg))
                      ELSE GOST_init(FilledPI_INV, SharedKey(alg))]

\* the IV under which the shared instance decrypts SharedCiphertext to
\* SharedTarget
SharedIV ==
    [alg \in Algs |->
        XorBytes(IF alg = "SM4"
                 THEN SM4_decrypt_block(SharedInit[alg].round_keys, SharedCiphertext)
                 ELSE GOST_decrypt_block(SharedInit[alg].round_keys, FilledPI_INV,
                                         SharedCiphertext),
                 SharedTarget)]

\* what the callers call, and what each call returns when nothing runs
\* beside it
SharedCalls == {"encrypt_cbc", "decrypt_cbc"}
Alone ==
    [alg \in Algs |-> [op \in SharedCalls |->
        IF op = "encrypt_cbc"
        THEN IF alg = "SM4"
             THEN SM4_encrypt_cbc(SharedInit[alg].round_keys, SharedPlaintext, Bytes(101, 16))
             ELSE GOST_encrypt_cbc(SharedInit[alg].round_keys, SharedPlaintext, Bytes(101, 16))
        ELSE IF alg = "SM4"
             THEN SM4_decrypt_cbc(SharedInit[alg].round_keys, SharedCiphertext, SharedIV[alg])
             ELSE GOST_decrypt_cbc(SharedInit[alg].round_keys, FilledPI_INV, SharedCiphertext,
                                   SharedIV[alg])]]

\* the instance is constructed, by one thread, before it is shared, while the
\* constructing thread is between two constructions
Share(alg) ==
    /\ cipher = NoCipher
    /\ ctor.pc = "idle"
    /\ \E r \in {IF alg = "SM4" THEN SM4_init(SharedKey(alg))
                 ELSE GOST_init(PI_INV, SharedKey(alg))} :
           /\ cipher' = [alg |-> alg, round_keys |-> r.round_keys]
           /\ PI_INV' = IF alg = "GOST" THEN r.PI_INV ELSE PI_INV
    /\ UNCHANGED <<held, pc, call, ret, err, decrypted, nblocks, hash, mgr, token, fed,
                   callers, ctor, IV, kept, owned>>

\* GOSTKuznyechik(key) by the constructing thread: the key is checked
CtorStart ==
    /\ ctor.pc = "idle"
    /\ ctor' = [pc |-> "filling", i |-> 0]
    /\ UNCHANGED <<cipher, PI_INV, held, pc, call, ret, err, decrypted, nblocks, hash, mgr,
                   token, fed, callers, IV, kept, owned>>

\* one round of "for i, v in enumerate(self.PI)"
CtorFill ==
    /\ ctor.pc = "filling"
    /\ ctor.i < 256
    /\ PI_INV' = GOST_fill_step(PI_INV, ctor.i)
    /\ ctor' = [ctor EXCEPT !.i = ctor.i + 1]
    /\ UNCHANGED <<cipher, held, pc, call, ret, err, decrypted, nblocks, hash, mgr, token, fed,
                   callers, IV, kept, owned>>

\* the round keys of the new instance, which only this thread holds
CtorFinish ==
    /\ ctor.pc = "filling"
    /\ ctor.i = 256
    /\ ctor' = NoCtor
    /\ UNCHANGED <<cipher, PI_INV, held, pc, call, ret, err, decrypted, nblocks, hash, mgr,
                   token, fed, callers, IV, kept, owned>>

\* thread t calls cipher.encrypt_cbc(SharedPlaintext, iv), which reads nothing
\* that is ever written: one step
CallEncrypt(t) ==
    /\ cipher # NoCipher
    /\ callers[t].pc = "idle"
    /\ callers' = [callers EXCEPT ![t] =
           [NoCaller EXCEPT !.pc = "done", !.op = "encrypt_cbc",
                            !.err = Alone[cipher.alg]["encrypt_cbc"].err,
                            !.ret = Alone[cipher.alg]["encrypt_cbc"].ret]]
    /\ UNCHANGED <<cipher, PI_INV, held, pc, call, ret, err, decrypted, nblocks, hash, mgr,
                   token, fed, ctor, IV, kept, owned>>

\* thread t calls cipher.decrypt_cbc(ciphertext, iv): one step for SM4, and
\* for Kuznyechik the checks and the first line of decrypt_block
CallDecrypt(t, ciphertext, iv) ==
    /\ cipher # NoCipher
    /\ callers[t].pc = "idle"
    /\ callers' = [callers EXCEPT ![t] =
           IF cipher.alg = "SM4"
           THEN [NoCaller EXCEPT !.pc = "done", !.op = "decrypt_cbc",
                                 !.err = Alone[cipher.alg]["decrypt_cbc"].err,
                                 !.ret = Alone[cipher.alg]["decrypt_cbc"].ret]
           ELSE [NoCaller EXCEPT !.pc = "running", !.op = "decrypt_cbc", !.data = ciphertext,
                                 !.iv = iv, !.i = 0, !.round = 8, !.prev_block = iv,
                                 !.result = XorBytes(Slice(ciphertext, 0, 16),
                                                     cipher.round_keys[10])]]
    /\ UNCHANGED <<cipher, PI_INV, held, pc, call, ret, err, decrypted, nblocks, hash, mgr,
                   token, fed, ctor, IV, kept, owned>>

\* the locals of thread t after the round of decrypt_block it is in, given
\* the result of that round: after the last round the block is xored and
\* joined to plaintext, and the next block begins or the padding is removed
AfterRound(c, result) ==
    IF c.round > 0 THEN [c EXCEPT !.result = result, !.round = c.round - 1]
    ELSE IF c.i + 16 < Len(c.data)
    THEN [c EXCEPT !.plaintext = c.plaintext \o XorBytes(result, c.prev_block),
                   !.prev_block = Slice(c.data, c.i, c.i + 16),
                   !.i = c.i + 16,
                   !.round = 8,
                   !.result = XorBytes(Slice(c.data, c.i + 16, c.i + 32),
                                       cipher.round_keys[10])]
    ELSE [NoCaller EXCEPT
             !.pc = "done", !.op = c.op,
             !.err = GOST_unpad(c.plaintext \o XorBytes(result, c.prev_block)).err,
             !.ret = GOST_unpad(c.plaintext \o XorBytes(result, c.prev_block)).ret]

\* one round of the loop of decrypt_block in thread t: it reads PI_INV as it
\* is now
CallRound(t) ==
    /\ callers[t].pc = "running"
    /\ \E result \in {XorBytes(GOST_s_inv_transform(PI_INV,
                                   GOST_l_inv_transform(callers[t].result)),
                               cipher.round_keys[callers[t].round + 1])} :
           callers' = [callers EXCEPT ![t] = AfterRound(callers[t], result)]
    /\ UNCHANGED <<cipher, PI_INV, held, pc, call, ret, err, decrypted, nblocks, hash, mgr,
                   token, fed, ctor, IV, kept, owned>>

\* the call of thread t is over
CallReturn(t) ==
    /\ callers[t].pc = "done"
    /\ callers' = [callers EXCEPT ![t] = NoCaller]
    /\ UNCHANGED <<cipher, PI_INV, held, pc, call, ret, err, decrypted, nblocks, hash, mgr,
                   token, fed, ctor, IV, kept, owned>>

NextConc ==
    \/ \E alg \in Algs : Share(alg)
    \/ CtorStart
    \/ CtorFill
    \/ CtorFinish
    \/ \E t \in Callers : CallEncrypt(t)
    \/ \E t \in Callers : CallDecrypt(t, SharedCiphertext, SharedIV[cipher.alg])
    \/ \E t \in Callers : CallRound(t)
    \/ \E t \in Callers : CallReturn(t)

SpecConc == Init /\ [][NextConc]_vars

(***************************************************************************)
(* The specification of independent hash computations: each makes an SM3   *)
(* or GOSTStreebog object of its own, gives it data in chunks and digests   *)
(* it once, and the calls of the computations interleave in any order.  A   *)
(* call is one step: it reads and writes the fields of its own object, and  *)
(* of what is shared it reads SM3.IV (in __init__) and PI, which no call    *)
(* writes.                                                                  *)
(***************************************************************************)

MaxOwnOps == 2       \* update calls of one computation

\* the second chunk of 40 bytes closes a block
OwnChunkLens == {40}

\* the computations feed consecutive pieces of streams of their own
OwnStream(c, n) == Bytes(10 + c, n)

OwnChunk(c, n) ==
    SubSeq(OwnStream(c, Len(owned.of[c].data) + n),
           Len(owned.of[c].data) + 1, Len(owned.of[c].data) + n)

\* the lengths a computation can have given when it digests
OwnLens == {n * a : n \in OwnChunkLens, a \in 0..MaxOwnOps}

\* the one-call hashes of what a computation can have given: SM3.hash(data)
\* and GOSTStreebog.hash(data, digest_size), by computation, length and class
OneCall ==
    [c \in Computations |->
        [n \in OwnLens |->
            [SM3 |-> SM3_hash(OwnStream(c, n)),
             STREEBOG |-> [size \in {32, 64} |-> Streebog_hash(OwnStream(c, n), size)]]]]

\* a computation that shares the object of the first computation when there
\* is one
OwnObject_of_first(c) ==
    IF owned.of[1].obj # <<>> /\ owned.of[1].kind = owned.of[c].kind
    THEN owned.of[1].obj[1] ELSE owned.of[c].obj[1]

\* the object a call of computation c is made on
OwnObject(c) == owned.of[c].obj[1]

\* a call of c on its object right after a call of another computation: that
\* call came between two calls of c
Interleaves(c) ==
    owned.mixed \/ (owned.last # 0 /\ owned.last # c)

\* computation c: h = SM3()
OwnNewSM3(c) ==
    /\ owned.of[c].kind = "none"
    /\ owned' = [last |-> c, mixed |-> owned.mixed,
                 of |-> [owned.of EXCEPT ![c] =
                            [NoComputation EXCEPT !.kind = "SM3", !.obj = <<SM3_init(IV)>>]]]
    /\ UNCHANGED <<cipher, PI_INV, held, pc, call, ret, err, decrypted, nblocks, hash, mgr,
                   token, fed, callers, ctor, IV, kept>>

\* computation c: h = GOSTStreebog(digest_size)
OwnNewStreebog(c, digest_size) ==
    /\ owned.of[c].kind = "none"
    /\ \E r \in {Streebog_init(digest_size)} :
           owned' = [last |-> c, mixed |-> owned.mixed,
                     of |-> [owned.of EXCEPT ![c] =
                                IF r.err = NoError
                                THEN [NoComputation EXCEPT !.kind = "STREEBOG",
                                                           !.size = digest_size,
                                                           !.obj = r.self]
                                ELSE NoComputation]]
    /\ UNCHANGED <<cipher, PI_INV, held, pc, call, ret, err, decrypted, nblocks, hash, mgr,
                   token, fed, callers, ctor, IV, kept>>

\* computation c: h.update(data)
OwnUpdate(c, data) ==
    /\ owned.of[c].kind # "none"
    /\ ~owned.of[c].digested
    /\ owned.of[c].ops < MaxOwnOps
    /\ \E self \in {IF owned.of[c].kind = "SM3" THEN SM3_update(OwnObject(c), data)
                    ELSE Streebog_update(OwnObject(c), data)} :
           owned' = [last |-> c, mixed |-> Interleaves(c),
                     of |-> [owned.of EXCEPT ![c] =
                                [owned.of[c] EXCEPT !.obj = <<self>>,
                                                    !.data = owned.of[c].data \o data,
                                                    !.ops = owned.of[c].ops + 1]]]
    /\ UNCHANGED <<cipher, PI_INV, held, pc, call, ret, err, decrypted, nblocks, hash, mgr,
                   token, fed, callers, ctor, IV, kept>>

\* computation c: h.digest(), which returns or raises
OwnDigest(c) ==
    /\ owned.of[c].kind # "none"
    /\ ~owned.of[c].digested
    /\ \E r \in {IF owned.of[c].kind = "SM3" THEN SM3_digest(OwnObject(c))
                 ELSE Streebog_digest(OwnObject(c))} :
           owned' = [last |-> c, mixed |-> Interleaves(c),
                     of |-> [owned.of EXCEPT ![c] =
                                [owned.of[c] EXCEPT !.obj = <<r.self>>,
                                                    !.digested = TRUE,
                                                    !.err = r.err,
                                                    !.ret = r.ret]]]
    /\ UNCHANGED <<cipher, PI_INV, held, pc, call, ret, err, decrypted, nblocks, hash, mgr,
                   token, fed, callers, ctor, IV, kept>>

NextOwn ==
    \/ \E c \in Computations : OwnNewSM3(c)
    \/ \E c \in Computations, digest_size \in DigestSizes : OwnNewStreebog(c, digest_size)
    \/ \E c \in Computations, n \in OwnChunkLens : OwnUpdate(c, OwnChunk(c, n))
    \/ \E c \in Computations : OwnDigest(c)

SpecOwn == Init /\ [][NextOwn]_vars

(***************************************************************************)
(* The manager specification (class EncryptionManager)                     *)
(***************************************************************************)

\* the values of the enum EncryptionAlgorithm
EncryptionAlgorithm ==
    {"SM4-CBC", "SM4-GCM", "SM2", "SM3",
     "GOST-KUZNYECHIK-CBC", "GOST-KUZNYECHIK-GCM", "GOST-MAGMA-CBC",
     "GOST-STREEBOG-256", "GOST-STREEBOG-512",
     "AES-256-GCM", "AES-256-CBC"}

CipherNotInitialized == "CipherNotInitialized"   \* "SM4 cipher not initialized", "GOST cipher not initialized"
UnsupportedAlgorithm == "UnsupportedAlgorithm"   \* "Unsupported algorithm: ..."

\* the EncryptedData encrypt builds of what encrypt_cbc returned, or the
\* exception of encrypt_cbc
Mgr_encrypted(r, iv, algorithm) ==
    IF r.err # NoError THEN [err |-> r.err, ret |-> <<>>]
    ELSE [err |-> NoError,
          ret |-> <<[ciphertext |-> r.ret[1], iv |-> iv, tag |-> <<>>,
                     algorithm |-> algorithm]>>]

\* encrypt that labels its result by the mode it used
Mgr_encrypt_labels_cbc(self, plaintext, algorithm, iv) ==
    IF algorithm \in {"SM4-CBC", "SM4-GCM"}
    THEN IF self.sm4_cipher = <<>> THEN [err |-> CipherNotInitialized, ret |-> <<>>]
         ELSE Mgr_encrypted(SM4_encrypt_cbc(self.sm4_cipher[1], plaintext, iv), iv, "SM4-CBC")
    ELSE IF algorithm \in {"GOST-KUZNYECHIK-CBC", "GOST-KUZNYECHIK-GCM"}
    THEN IF self.gost_cipher = <<>> THEN [err |-> CipherNotInitialized, ret |-> <<>>]
         ELSE Mgr_encrypted(GOST_encrypt_cbc(self.gost_cipher[1], plaintext, iv), iv,
                            "GOST-KUZNYECHIK-CBC")
    ELSE [err |-> UnsupportedAlgorithm, ret |-> <<>>]

\* encrypt, given the iv that secrets.token_bytes(16) returns in the call
Mgr_encrypt(self, plaintext, algorithm, iv) ==
    IF algorithm \in {"SM4-CBC", "SM4-GCM"}
    THEN IF self.sm4_cipher = <<>> THEN [err |-> CipherNotInitialized, ret |-> <<>>]
         ELSE Mgr_encrypted(SM4_encrypt_cbc(self.sm4_cipher[1], plaintext, iv), iv, algorithm)
    ELSE IF algorithm \in {"GOST-KUZNYECHIK-CBC", "GOST-KUZNYECHIK-GCM"}
    THEN IF self.gost_cipher = <<>> THEN [err |-> CipherNotInitialized, ret |-> <<>>]
         ELSE Mgr_encrypted(GOST_encrypt_cbc(self.gost_cipher[1], plaintext, iv), iv, algorithm)
    ELSE [err |-> UnsupportedAlgorithm, ret |-> <<>>]

\* decrypt that falls back on the other cipher when the one of the tag is
\* not there
Mgr_decrypt_any_cipher(self, pi_inv, encrypted_data) ==
    IF encrypted_data.algorithm \in {"SM4-CBC", "SM4-GCM"}
    THEN IF self.sm4_cipher = <<>>
         THEN IF self.gost_cipher = <<>>
              THEN [err |-> CipherNotInitialized, ret |-> <<>>, plaintext |-> <<>>]
              ELSE GOST_decrypt_cbc(self.gost_cipher[1], pi_inv, encrypted_data.ciphertext,
                                    encrypted_data.iv)
         ELSE SM4_decrypt_cbc(self.sm4_cipher[1], encrypted_data.ciphertext, encrypted_data.iv)
    ELSE IF encrypted_data.algorithm \in {"GOST-KUZNYECHIK-CBC", "GOST-KUZNYECHIK-GCM"}
    THEN IF self.gost_cipher = <<>>
         THEN IF self.sm4_cipher = <<>>
              THEN [err |-> CipherNotInitialized, ret |-> <<>>, plaintext |-> <<>>]
              ELSE SM4_decrypt_cbc(self.sm4_cipher[1], encrypted_data.ciphertext,
                                   encrypted_data.iv)
         ELSE GOST_decrypt_cbc(self.gost_cipher[1], pi_inv, encrypted_data.ciphertext,
                               encrypted_data.iv)
    ELSE [err |-> UnsupportedAlgorithm, ret |-> <<>>, plaintext |-> <<>>]

\* decrypt
\* decrypt that asks a GCM value for its authentication tag
Mgr_decrypt_verifies_tag(self, pi_inv, encrypted_data) ==
    IF encrypted_data.algorithm \in {"SM4-GCM", "GOST-KUZNYECHIK-GCM"}
           /\ encrypted_data.tag = <<>>
    THEN [err |-> InvalidPadding, ret |-> <<>>, plaintext |-> <<>>]
    ELSE IF encrypted_data.algorithm \in {"SM4-CBC", "SM4-GCM"}
    THEN IF self.sm4_cipher = <<>>
         THEN [err |-> CipherNotInitialized, ret |-> <<>>, plaintext |-> <<>>]
         ELSE SM4_decrypt_cbc(self.sm4_cipher[1], encrypted_data.ciphertext, encrypted_data.iv)
    ELSE IF encrypted_data.algorithm \in {"GOST-KUZNYECHIK-CBC", "GOST-KUZNYECHIK-GCM"}
    THEN IF self.gost_cipher = <<>>
         THEN [err |-> CipherNotInitialized, ret |-> <<>>, plaintext |-> <<>>]
         ELSE GOST_decrypt_cbc(self.gost_cipher[1], pi_inv, encrypted_data.ciphertext,
                               encrypted_data.iv)
    ELSE [err |-> UnsupportedAlgorithm, ret |-> <<>>, plaintext |-> <<>>]

Mgr_decrypt(self, pi_inv, encrypted_data) ==
    IF encrypted_data.algorithm \in {"SM4-CBC", "SM4-GCM"}
    THEN IF self.sm4_cipher = <<>>
         THEN [err |-> CipherNotInitialized, ret |-> <<>>, plaintext |-> <<>>]
         ELSE SM4_decrypt_cbc(self.sm4_cipher[1], encrypted_data.ciphertext, encrypted_data.iv)
    ELSE IF encrypted_data.algorithm \in {"GOST-KUZNYECHIK-CBC", "GOST-KUZNYECHIK-GCM"}
    THEN IF self.gost_cipher = <<>>
         THEN [err |-> CipherNotInitialized, ret |-> <<>>, plaintext |-> <<>>]
         ELSE GOST_decrypt_cbc(self.gost_cipher[1], pi_inv, encrypted_data.ciphertext,
                               encrypted_data.iv)
    ELSE [err |-> UnsupportedAlgorithm, ret |-> <<>>, plaintext |-> <<>>]

\* secrets.token_bytes(n): n bytes, which the seed stands for
TokenBytes(seed, n) == Bytes(seed, n)

\* a generate_key whose keys all have 32 bytes
Mgr_generate_key_all_32(algorithm, seed) ==
    IF algorithm \in {"SM4-CBC", "SM4-GCM", "GOST-KUZNYECHIK-CBC", "GOST-KUZNYECHIK-GCM",
                      "AES-256-GCM", "AES-256-CBC"}
    THEN [err |-> NoError, ret |-> <<TokenBytes(seed, 32)>>]
    ELSE [err |-> UnsupportedAlgorithm, ret |-> <<>>]

\* generate_key
Mgr_generate_key(algorithm, seed) ==
    IF algorithm \in {"SM4-CBC", "SM4-GCM"}
    THEN [err |-> NoError, ret |-> <<TokenBytes(seed, SM4_KEY_SIZE)>>]
    ELSE IF algorithm \in {"GOST-KUZNYECHIK-CBC", "GOST-KUZNYECHIK-GCM"}
    THEN [err |-> NoError, ret |-> <<TokenBytes(seed, GOST_KEY_SIZE)>>]
    ELSE IF algorithm \in {"AES-256-GCM", "AES-256-CBC"}
    THEN [err |-> NoError, ret |-> <<TokenBytes(seed, 32)>>]
    ELSE [err |-> UnsupportedAlgorithm, ret |-> <<>>]

\* generate_iv
Mgr_generate_iv(seed) == TokenBytes(seed, 16)

\* what the manager's caller encrypts, and what secrets.token_bytes(16) can
\* return
MgrPlaintexts == {p \in Plaintexts : Len(p) \in {0, 16, MaxLen}}
Tokens == {Bytes(100 + s, 16) : s \in 1..NumIVs}

\* the ciphertexts of the EncryptedData values a caller builds itself
ForeignCiphertexts == {Bytes(60, 16), Bytes(61, 32)}

\* initialize_sm4 that stores the key before it constructs the cipher
Mgr_initialize_sm4_key_first(self, key, made) ==
    IF made.err # NoError
    THEN [err |-> made.err, self |-> [self EXCEPT !.keys.sm4 = <<key>>]]
    ELSE [err |-> NoError,
          self |-> [self EXCEPT !.sm4_cipher = <<made.round_keys>>, !.keys.sm4 = <<key>>]]

\* initialize_sm4, given the outcome "made" of SM4(key): the exception and the
\* manager after the call; "self._sm4_cipher = SM4(key)" assigns nothing when
\* SM4(key) raises, and the next line is not reached
Mgr_initialize_sm4(self, key, made) ==
    IF made.err # NoError
    THEN [err |-> made.err, self |-> self]
    ELSE [err |-> NoError,
          self |-> [self EXCEPT !.sm4_cipher = <<made.round_keys>>, !.keys.sm4 = <<key>>]]

\* initialize_gost that builds the registry anew
Mgr_initialize_gost_resets_sm4(self, key, made) ==
    IF made.err # NoError
    THEN [err |-> made.err, self |-> self]
    ELSE [err |-> NoError,
          self |-> [NoMgr EXCEPT !.gost_cipher = <<made.round_keys>>, !.keys.gost = <<key>>]]

\* initialize_gost, given the outcome "made" of GOSTKuznyechik(key)
Mgr_initialize_gost(self, key, made) ==
    IF made.err # NoError
    THEN [err |-> made.err, self |-> self]
    ELSE [err |-> NoError,
          self |-> [self EXCEPT !.gost_cipher = <<made.round_keys>>, !.keys.gost = <<key>>]]

\* manager.initialize_sm4(key)
InitializeSM4(key) ==
    /\ pc = "idle"
    /\ ~held.ok
    /\ \E made \in {SM4_init(key)} :
           \E r \in {Mgr_initialize_sm4(mgr, key, made)} :
               /\ err' = r.err
               /\ mgr' = r.self
    /\ pc' = "done"
    /\ call' = [op |-> "initialize_sm4", alg |-> "SM4", data |-> key, iv |-> <<>>,
                kind |-> "none", size |-> 0]
    /\ ret' = <<>>
    /\ UNCHANGED <<cipher, PI_INV, held, decrypted, nblocks, hash, token, fed, callers, ctor, IV, kept, owned>>

\* manager.initialize_gost(key)
InitializeGOST(key) ==
    /\ pc = "idle"
    /\ ~held.ok
    /\ \E made \in {GOST_init(PI_INV, key)} :
           \E r \in {Mgr_initialize_gost(mgr, key, made)} :
               /\ err' = r.err
               /\ PI_INV' = made.PI_INV
               /\ mgr' = r.self
    /\ pc' = "done"
    /\ call' = [op |-> "initialize_gost", alg |-> "GOST", data |-> key, iv |-> <<>>,
                kind |-> "none", size |-> 0]
    /\ ret' = <<>>
    /\ UNCHANGED <<cipher, held, decrypted, nblocks, hash, token, fed, callers, ctor, IV, kept, owned>>

\* manager.encrypt(plaintext, algorithm); the call draws its IV itself
MgrEncrypt(plaintext, algorithm) ==
    /\ pc = "idle"
    /\ ~held.ok
    /\ \E iv \in Tokens :
           /\ token' = iv
           /\ \E r \in {Mgr_encrypt(mgr, plaintext, algorithm, iv)} :
                  /\ err' = r.err
                  /\ ret' = r.ret
                  /\ nblocks' = IF r.err = NoError THEN Len(r.ret[1].ciphertext) \div 16 ELSE 0
    /\ pc' = "done"
    /\ call' = [op |-> "encrypt", alg |-> algorithm, data |-> plaintext, iv |-> <<>>,
                kind |-> "none", size |-> 0]
    /\ decrypted' = <<>>
    /\ UNCHANGED <<cipher, PI_INV, held, hash, mgr, fed, callers, ctor, IV, kept, owned>>

\* manager.decrypt(encrypted_data) of the EncryptedData encrypt returned
MgrDecrypt ==
    /\ pc = "idle"
    /\ held.ok
    /\ \E r \in {Mgr_decrypt(mgr, PI_INV,
                     [ciphertext |-> held.ciphertext, iv |-> held.iv, tag |-> <<>>,
                      algorithm |-> held.alg])} :
           /\ err' = r.err
           /\ ret' = r.ret
           /\ nblocks' = Len(r.plaintext) \div 16
           /\ decrypted' = r.plaintext
    /\ pc' = "done"
    /\ call' = [op |-> "decrypt", alg |-> held.alg, data |-> held.ciphertext, iv |-> held.iv,
                kind |-> "roundtrip", size |-> 0]
    /\ UNCHANGED <<cipher, PI_INV, held, hash, mgr, token, fed, callers, ctor, IV, kept, owned>>

\* manager.decrypt(encrypted_data) of an EncryptedData the caller has built
\* itself, under any tag of the enum
MgrDecryptForeign(ciphertext, iv, algorithm) ==
    /\ pc = "idle"
    /\ ~held.ok
    /\ \E r \in {Mgr_decrypt(mgr, PI_INV,
                     [ciphertext |-> ciphertext, iv |-> iv, tag |-> <<>>,
                      algorithm |-> algorithm])} :
           /\ err' = r.err
           /\ ret' = r.ret
           /\ nblocks' = Len(r.plaintext) \div 16
           /\ decrypted' = r.plaintext
    /\ pc' = "done"
    /\ call' = [op |-> "decrypt", alg |-> algorithm, data |-> ciphertext, iv |-> iv,
                kind |-> "foreign", size |-> 0]
    /\ UNCHANGED <<cipher, PI_INV, held, hash, mgr, token, fed, callers, ctor, IV, kept, owned>>

\* EncryptionManager.generate_key(algorithm)
MgrGenerateKey(algorithm) ==
    /\ pc = "idle"
    /\ ~held.ok
    /\ \E seed \in 1..NumKeys :
           \E r \in {Mgr_generate_key(algorithm, seed)} :
               /\ err' = r.err
               /\ ret' = r.ret
               /\ token' = IF r.err = NoError THEN r.ret[1] ELSE <<>>
    /\ pc' = "done"
    /\ call' = [op |-> "generate_key", alg |-> algorithm, data |-> <<>>, iv |-> <<>>,
                kind |-> "none", size |-> 0]
    /\ UNCHANGED <<cipher, PI_INV, held, decrypted, nblocks, hash, mgr, fed, callers, ctor, IV, kept, owned>>

\* EncryptionManager.generate_iv()
MgrGenerateIV ==
    /\ pc = "idle"
    /\ ~held.ok
    /\ \E seed \in 1..NumIVs :
           /\ ret' = <<Mgr_generate_iv(100 + seed)>>
           /\ token' = Mgr_generate_iv(100 + seed)
    /\ err' = NoError
    /\ pc' = "done"
    /\ call' = [op |-> "generate_iv", alg |-> "None", data |-> <<>>, iv |-> <<>>,
                kind |-> "none", size |-> 0]
    /\ UNCHANGED <<cipher, PI_INV, held, decrypted, nblocks, hash, mgr, fed, callers, ctor, IV, kept, owned>>

\* manager.initialize_sm4(manager.generate_key(algorithm)) and
\* manager.initialize_gost(manager.generate_key(algorithm)): the key that
\* generate_key has just returned goes to the initialisation of its cipher
MgrInitializeGenerated ==
    /\ pc = "done"
    /\ call.op = "generate_key"
    /\ err = NoError
    /\ call.alg \in {"SM4-CBC", "SM4-GCM", "GOST-KUZNYECHIK-CBC", "GOST-KUZNYECHIK-GCM"}
    /\ \E made \in {IF call.alg \in {"SM4-CBC", "SM4-GCM"} THEN SM4_init(ret[1])
                    ELSE GOST_init(PI_INV, ret[1])} :
           \E r \in {IF call.alg \in {"SM4-CBC", "SM4-GCM"}
                     THEN Mgr_initialize_sm4(mgr, ret[1], made)
                     ELSE Mgr_initialize_gost(mgr, ret[1], made)} :
               /\ err' = r.err
               /\ PI_INV' = IF call.alg \in {"SM4-CBC", "SM4-GCM"} THEN PI_INV
                             ELSE made.PI_INV
               /\ mgr' = r.self
    /\ call' = [op |-> IF call.alg \in {"SM4-CBC", "SM4-GCM"} THEN "initialize_sm4"
                       ELSE "initialize_gost",
                alg |-> IF call.alg \in {"SM4-CBC", "SM4-GCM"} THEN "SM4" ELSE "GOST",
                data |-> ret[1], iv |-> <<>>, kind |-> "generated", size |-> 0]
    /\ ret' = <<>>
    /\ token' = <<>>
    /\ UNCHANGED <<cipher, held, pc, decrypted, nblocks, hash, fed, callers, ctor, IV, kept, owned>>

\* the call is over: the caller keeps the EncryptedData of a successful encrypt
MgrReturn ==
    /\ pc = "done"
    /\ pc' = "idle"
    /\ held' = IF call.op = "encrypt" /\ err = NoError
               THEN [ok |-> TRUE, alg |-> ret[1].algorithm, plaintext |-> call.data,
                     iv |-> ret[1].iv, ciphertext |-> ret[1].ciphertext]
               ELSE held
    /\ call' = NoCall
    /\ ret' = <<>>
    /\ err' = NoError
    /\ decrypted' = <<>>
    /\ nblocks' = 0
    /\ token' = <<>>
    /\ UNCHANGED <<cipher, PI_INV, hash, mgr, fed, callers, ctor, IV, kept, owned>>

\* the caller drops the EncryptedData it holds
MgrDiscard ==
    /\ pc = "idle"
    /\ held.ok
    /\ held' = NoData
    /\ UNCHANGED <<cipher, PI_INV, pc, call, ret, err, decrypted, nblocks, hash, mgr, token, fed, callers, ctor,
                   IV, kept, owned>>

NextMgr ==
    \/ \E key \in Keys : InitializeSM4(key)
    \/ \E key \in Keys : InitializeGOST(key)
    \/ \E p \in MgrPlaintexts, algorithm \in EncryptionAlgorithm : MgrEncrypt(p, algorithm)
    \/ MgrDecrypt
    \/ \E c \in ForeignCiphertexts, iv \in Tokens, algorithm \in EncryptionAlgorithm :
           MgrDecryptForeign(c, iv, algorithm)
    \/ \E algorithm \in EncryptionAlgorithm : MgrGenerateKey(algorithm)
    \/ MgrGenerateIV
    \/ MgrInitializeGenerated
    \/ MgrReturn
    \/ MgrDiscard

SpecMgr == Init /\ [][NextMgr]_vars

(***************************************************************************)
(* The specification of a kept ciphertext: a caller encrypts under SM4-CBC, *)
(* keeps the EncryptedData, goes on calling the manager, and decrypts what  *)
(* it kept                                                                  *)
(***************************************************************************)

MaxLater == 2        \* calls between the encrypt and the decrypt of what is kept

KeepPlaintexts == {Bytes(200, MaxLen)}
KeepHashData == {Bytes(7, 33)}

\* one more call since the encrypt of what is kept
Later(rekeys) ==
    IF kept.ok
    THEN [kept EXCEPT !.later = kept.later + 1, !.rekeyed = kept.rekeyed \/ rekeys]
    ELSE kept

\* manager.initialize_sm4(key), before or after the encrypt
KeepInitializeSM4(key) ==
    /\ pc = "idle"
    /\ kept.later < MaxLater
    /\ \E made \in {SM4_init(key)} :
           \E r \in {Mgr_initialize_sm4(mgr, key, made)} :
               /\ err' = r.err
               /\ mgr' = r.self
    /\ kept' = Later(TRUE)
    /\ pc' = "done"
    /\ call' = [op |-> "initialize_sm4", alg |-> "SM4", data |-> key, iv |-> <<>>,
                kind |-> "none", size |-> 0]
    /\ ret' = <<>>
    /\ UNCHANGED <<cipher, PI_INV, held, decrypted, nblocks, hash, token, fed, callers, ctor,
                   IV, owned>>

\* manager.initialize_gost(key), before or after the encrypt
KeepInitializeGOST(key) ==
    /\ pc = "idle"
    /\ kept.later < MaxLater
    /\ \E made \in {GOST_init(PI_INV, key)} :
           \E r \in {Mgr_initialize_gost(mgr, key, made)} :
               /\ err' = r.err
               /\ PI_INV' = made.PI_INV
               /\ mgr' = r.self
    /\ kept' = Later(FALSE)
    /\ pc' = "done"
    /\ call' = [op |-> "initialize_gost", alg |-> "GOST", data |-> key, iv |-> <<>>,
                kind |-> "none", size |-> 0]
    /\ ret' = <<>>
    /\ UNCHANGED <<cipher, held, decrypted, nblocks, hash, token, fed, callers, ctor,
                   IV, owned>>

\* manager.encrypt(plaintext, algorithm): the caller keeps the result of its
\* first successful SM4-CBC encrypt, and lets go of the results of the others
KeepEncrypt(plaintext, algorithm) ==
    /\ pc = "idle"
    /\ kept.later < MaxLater
    /\ \E iv \in Tokens :
           /\ token' = iv
           /\ \E r \in {Mgr_encrypt(mgr, plaintext, algorithm, iv)} :
                  /\ err' = r.err
                  /\ ret' = r.ret
                  /\ kept' = IF ~kept.ok /\ r.err = NoError /\ algorithm = "SM4-CBC"
                             THEN [ok |-> TRUE, data |-> r.ret[1], plaintext |-> plaintext,
                                   key |-> mgr.keys.sm4[1], later |-> 0, rekeyed |-> FALSE]
                             ELSE Later(FALSE)
    /\ pc' = "done"
    /\ call' = [op |-> "encrypt", alg |-> algorithm, data |-> plaintext, iv |-> <<>>,
                kind |-> "none", size |-> 0]
    /\ UNCHANGED <<cipher, PI_INV, held, decrypted, nblocks, hash, mgr, fed, callers, ctor,
                   IV, owned>>

\* manager.hash_sm3(data) and manager.hash_streebog(data)
KeepHash(op, data) ==
    /\ pc = "idle"
    /\ kept.later < MaxLater
    /\ \E r \in {IF op = "hash_sm3" THEN SM3_hash(data) ELSE Streebog_hash(data, 32)} :
           /\ err' = r.err
           /\ ret' = r.ret
    /\ kept' = Later(FALSE)
    /\ pc' = "done"
    /\ call' = [op |-> op, alg |-> IF op = "hash_sm3" THEN "SM3" ELSE "STREEBOG",
                data |-> data, iv |-> <<>>, kind |-> "none", size |-> 0]
    /\ UNCHANGED <<cipher, PI_INV, held, decrypted, nblocks, hash, mgr, token, fed, callers,
                   ctor, IV, owned>>

\* manager.decrypt(e) of the EncryptedData the caller has kept
KeepDecrypt ==
    /\ pc = "idle"
    /\ kept.ok
    /\ \E r \in {Mgr_decrypt(mgr, PI_INV, kept.data)} :
           /\ err' = r.err
           /\ ret' = r.ret
           /\ decrypted' = r.plaintext
    /\ pc' = "done"
    /\ call' = [op |-> "decrypt", alg |-> kept.data.algorithm, data |-> kept.data.ciphertext,
                iv |-> kept.data.iv, kind |-> "kept", size |-> 0]
    /\ UNCHANGED <<cipher, PI_INV, held, nblocks, hash, mgr, token, fed, callers, ctor,
                   IV, kept, owned>>

\* the call is over; what is kept stays
KeepReturn ==
    /\ pc = "done"
    /\ pc' = "idle"
    /\ call' = NoCall
    /\ ret' = <<>>
    /\ err' = NoError
    /\ decrypted' = <<>>
    /\ token' = <<>>
    /\ UNCHANGED <<cipher, PI_INV, held, nblocks, hash, mgr, fed, callers, ctor, IV, kept,
                   owned>>

NextKeep ==
    \/ \E key \in {k \in Keys : Len(k) \in {16, 17}} : KeepInitializeSM4(key)
    \/ \E key \in {k \in Keys : Len(k) \in {31, 32}} : KeepInitializeGOST(key)
    \/ \E p \in KeepPlaintexts, algorithm \in {"SM4-CBC", "GOST-KUZNYECHIK-CBC"} :
           KeepEncrypt(p, algorithm)
    \/ \E op \in {"hash_sm3", "hash_streebog"}, data \in KeepHashData : KeepHash(op, data)
    \/ KeepDecrypt
    \/ KeepReturn

SpecKeep == Init /\ [][NextKeep]_vars

(***************************************************************************)
(* Properties of the cipher specification                                  *)
(***************************************************************************)

\* C1: SM4 decrypt_cbc of what encrypt_cbc returned for a plaintext p, under
\* the same key and IV, raises nothing and returns exactly p.
C1_SM4RoundTrip ==
    (pc = "done" /\ call.op = "decrypt_cbc" /\ call.alg = "SM4" /\ call.kind = "roundtrip")
        => (err = NoError /\ ret = <<held.plaintext>>)

\* a 16-byte plaintext, whose padding is a block of its own, has come back
C1_Witness ==
    /\ pc = "done" /\ call.op = "decrypt_cbc" /\ call.alg = "SM4" /\ call.kind = "roundtrip"
    /\ Len(held.plaintext) = 16 /\ Len(call.data) = 32
    /\ ret = <<held.plaintext>>

\* C2: Kuznyechik decrypt_cbc of what encrypt_cbc returned for a plaintext p,
\* under the same key and IV, raises nothing and returns exactly p.
C2_GOSTRoundTrip ==
    (pc = "done" /\ call.op = "decrypt_cbc" /\ call.alg = "GOST" /\ call.kind = "roundtrip")
        => (err = NoError /\ ret = <<held.plaintext>>)

\* C3: decrypt_cbc of either cipher returns the decrypted bytes without
\* their padding when the last byte pad_len is in 1..16 and the last pad_len
\* bytes all equal pad_len, and raises the padding error, returning nothing,
\* for every other decrypted content.
C3_PaddingValidated ==
    (pc = "done" /\ call.op = "decrypt_cbc" /\ Len(decrypted) > 0)
        => LET pad_len == decrypted[Len(decrypted)]
           IN  IF pad_len \in 1..16 /\ AllEqual(Suffix(decrypted, pad_len), pad_len)
               THEN err = NoError /\ ret = <<DropSuffix(decrypted, pad_len)>>
               ELSE err = InvalidPadding /\ ret = <<>>

C6_ClosedErrors ==
    (pc = "done" /\ call.op = "decrypt_cbc")
        => err \in {NoError, InvalidIVLength, InvalidCiphertextLength, InvalidPadding}

\* C7: a constructor returns an instance exactly when the key has the length
\* of its cipher (16 for SM4, 32 for Kuznyechik); otherwise it raises the
\* key-length error and no instance and no round key exists.
C7_KeyLengthChecked ==
    /\ (pc = "done" /\ call.op = "init")
           => IF Len(call.data) = (IF call.alg = "SM4" THEN SM4_KEY_SIZE ELSE GOST_KEY_SIZE)
              THEN err = NoError /\ cipher.alg = call.alg
              ELSE err = InvalidKeyLength /\ cipher = NoCipher
    /\ cipher.alg = "SM4" => Len(cipher.round_keys) = SM4_ROUNDS
    /\ cipher.alg = "GOST" => Len(cipher.round_keys) = 10

\* a 16-byte key, good for SM4, has been refused by Kuznyechik
C7_Witness ==
    /\ pc = "done" /\ call.op = "init" /\ call.alg = "GOST"
    /\ Len(call.data) = 16
    /\ err = InvalidKeyLength
    /\ cipher = NoCipher

\* C8: encrypt_cbc and decrypt_cbc with an IV not of 16 bytes raise the
\* IV-length error, decrypt_cbc with a 16-byte IV and a ciphertext not of
\* whole blocks raises the ciphertext-length error; either way no block has
\* gone through the cipher and nothing is returned.
C8_LengthsValidated ==
    /\ (pc = "done" /\ call.op \in {"encrypt_cbc", "decrypt_cbc"} /\ Len(call.iv) # 16)
           => (err = InvalidIVLength /\ ret = <<>> /\ nblocks = 0)
    /\ (pc = "done" /\ call.op = "decrypt_cbc" /\ Len(call.iv) = 16 /\ Len(call.data) % 16 # 0)
           => (err = InvalidCiphertextLength /\ ret = <<>> /\ nblocks = 0)

\* a 17-byte ciphertext has been refused under a 16-byte IV
C8_Witness ==
    /\ pc = "done" /\ call.op = "decrypt_cbc"
    /\ Len(call.iv) = 16 /\ Len(call.data) = 17
    /\ err = InvalidCiphertextLength
    /\ nblocks = 0

\* C9: the ciphertext encrypt_cbc returns for a plaintext p has
\* 16 * (len(p) div 16 + 1) bytes, one byte per padded byte, and the padding
\* is 16 - (len(p) mod 16) bytes of that value.
C9_CiphertextLength ==
    (pc = "done" /\ call.op = "encrypt_cbc" /\ err = NoError)
        => LET p == call.data
               padded == IF call.alg = "SM4" THEN SM4_pad(p) ELSE GOST_pad(p)
               pad_len == 16 - (Len(p) % 16)
           IN  /\ Len(ret[1]) = 16 * ((Len(p) \div 16) + 1)
               /\ Len(ret[1]) % 16 = 0 /\ Len(ret[1]) > Len(p)
               /\ nblocks = (Len(p) \div 16) + 1
               /\ Len(ret[1]) = Len(padded)
               /\ padded = p \o Repeat(pad_len, pad_len)
               /\ pad_len \in 1..16

\* a 16-byte plaintext has become a 32-byte ciphertext
C9_Witness ==
    /\ pc = "done" /\ call.op = "encrypt_cbc" /\ err = NoError
    /\ Len(call.data) = 16
    /\ Len(ret[1]) = 32

\* C13: a constructed SM4 instance holds 32 round words and a constructed
\* Kuznyechik instance 10 round keys of 16 bytes, and no call of encrypt_cbc,
\* decrypt_cbc, encrypt_block or decrypt_block on the instance, whether it
\* returns or raises, changes round_keys.
C13_RoundKeysFixed ==
    [][/\ cipher # NoCipher => cipher'.round_keys = cipher.round_keys
       /\ cipher'.alg = "SM4"
              => /\ Len(cipher'.round_keys) = 32
                 /\ \A i \in 1..32 : Len(cipher'.round_keys[i]) = 4
       /\ cipher'.alg = "GOST"
              => /\ Len(cipher'.round_keys) = 10
                 /\ \A i \in 1..10 : Len(cipher'.round_keys[i]) = 16
      ]_vars

\* a decrypt_cbc on a Kuznyechik instance has raised, the ten round keys in
\* place
C13_Witness ==
    /\ pc = "done" /\ call.op = "decrypt_cbc" /\ call.alg = "GOST"
    /\ err = InvalidPadding
    /\ Len(cipher.round_keys) = 10
    /\ cipher.round_keys[1] \o cipher.round_keys[2] \in Keys

\* C16: no operation writes a class-level table; of the tables, the code
\* assigns to PI_INV alone, so it is the one that is state here: no step
\* changes PI_INV.
C16_TablesNeverWritten ==
    [][PI_INV' = PI_INV]_vars

\* C20: the SM4 instance of the key 0123456789abcdeffedcba9876543210 encrypts
\* the block 0123456789abcdeffedcba9876543210 to
\* 681edf34d206965e86b3e94f536e4246, the example of GB/T 32907-2016, and
\* decrypts that block to the first.
C20_SM4Vector ==
    (pc = "done" /\ call.alg = "SM4"
                 /\ cipher.round_keys = SM4_key_expansion(SM4_vector_key))
        => /\ (call.op = "encrypt_block" /\ call.data = SM4_vector_key)
                  => ret = <<SM4_vector_ciphertext>>
           /\ (call.op = "decrypt_block" /\ call.data = SM4_vector_ciphertext)
                  => ret = <<SM4_vector_key>>

\* the block of the standard has been encrypted under the key of the standard
C20_Witness ==
    /\ pc = "done" /\ call.alg = "SM4" /\ call.op = "encrypt_block"
    /\ call.data = SM4_vector_key
    /\ cipher.round_keys = SM4_key_expansion(SM4_vector_key)
    /\ ret = <<SM4_vector_ciphertext>>

\* C21: _l_inv_transform and _l_transform of Kuznyechik are inverses of each
\* other: _l_inv_transform of what _l_transform returned for a block is the
\* block, and the other way round.
C21_LinearInvertible ==
    /\ (pc = "done" /\ call.op = "l_transform")
           => GOST_l_inv_transform(ret[1]) = call.data
    /\ (pc = "done" /\ call.op = "l_inv_transform")
           => GOST_l_transform(ret[1]) = call.data

\* the round-key schedules C22 is checked for besides the one of the
\* instance: the schedule of the instance backwards, and 32 words that no key
\* expands to
SM4_other_schedules(round_keys) ==
    { [i \in 1..32 |-> round_keys[33 - i]],
      [i \in 1..32 |-> <<i, 255 - i, (7 * i) % 256, 0>>] }

\* C22: _decrypt_block of an SM4 instance inverts _encrypt_block and the
\* other way round: the block a block call returned goes back to the block
\* passed under the opposite call; and the same holds for the block passed
\* under other schedules of 32 round words and with _t_prime_transform or
\* _sbox_transform in the place of _t_transform, decryption being the same 32
\* rounds with round_keys[31-i] in round i.
C22_SM4BlockInverse ==
    (pc = "done" /\ call.alg = "SM4" /\ call.op \in {"encrypt_block", "decrypt_block"})
        => /\ call.op = "encrypt_block"
                  => SM4_decrypt_block(cipher.round_keys, ret[1]) = call.data
           /\ call.op = "decrypt_block"
                  => SM4_encrypt_block(cipher.round_keys, ret[1]) = call.data
           /\ \A rk \in SM4_other_schedules(cipher.round_keys) :
                  /\ SM4_decrypt_block(rk, SM4_encrypt_block(rk, call.data)) = call.data
                  /\ SM4_encrypt_block(rk, SM4_decrypt_block(rk, call.data)) = call.data
           /\ \A t \in {"t", "t_prime", "sbox"}, dec \in BOOLEAN :
                  /\ SM4_rounds_with(t, SM4_bytes_to_words(
                         SM4_rounds_with(t, SM4_bytes_to_words(call.data),
                                         cipher.round_keys, dec)),
                         cipher.round_keys, ~dec) = call.data
                  /\ t = "t" => SM4_rounds_with(t, SM4_bytes_to_words(call.data),
                                                cipher.round_keys, dec)
                                = SM4_rounds(SM4_bytes_to_words(call.data),
                                             cipher.round_keys, dec)

\* a block other than the example of the standard has been encrypted by an
\* SM4 instance and decrypts to itself
C22_Witness ==
    /\ pc = "done" /\ call.alg = "SM4" /\ call.op = "encrypt_block"
    /\ call.data = Bytes(60, 16)
    /\ ret[1] # call.data
    /\ SM4_decrypt_block(cipher.round_keys, ret[1]) = call.data

\* what encrypt_cbc of the instance returns for a plaintext and an IV
EncryptCbcOf(plaintext, iv) ==
    IF cipher.alg = "SM4" THEN SM4_encrypt_cbc(cipher.round_keys, plaintext, iv)
    ELSE GOST_encrypt_cbc(cipher.round_keys, plaintext, iv)

\* C23: the ciphertext encrypt_cbc of either cipher returns is chained: with
\* P_1..P_n the blocks of the padded plaintext and C_0 the IV, block i of the
\* ciphertext is the block encryption of P_i XOR C_(i-1); it is the value of
\* encrypt_cbc for the key, the IV and the plaintext whatever was called
\* before; and a plaintext that agrees with the one passed on its first j
\* full blocks has the same first j ciphertext blocks under that key and IV.
C23_CbcChaining ==
    (pc = "done" /\ call.op = "encrypt_cbc" /\ err = NoError)
        => LET padded == IF call.alg = "SM4" THEN SM4_pad(call.data)
                         ELSE GOST_pad(call.data)
               n == Len(padded) \div 16
               C(i) == IF i = 0 THEN call.iv ELSE Slice(ret[1], 16 * (i - 1), 16 * i)
           IN  /\ Len(ret[1]) = 16 * n
               /\ \A i \in 1..n :
                      C(i) = EncryptBlock(XorBytes(Slice(padded, 16 * (i - 1), 16 * i),
                                                   C(i - 1)))
               /\ ret = EncryptCbcOf(call.data, call.iv).ret
               /\ \A q \in Plaintexts, j \in 1..(MaxLen \div 16) :
                      (/\ 16 * j <= Len(q) /\ 16 * j <= Len(call.data)
                       /\ SubSeq(q, 1, 16 * j) = SubSeq(call.data, 1, 16 * j))
                          => SubSeq(EncryptCbcOf(q, call.iv).ret[1], 1, 16 * j)
                             = SubSeq(ret[1], 1, 16 * j)

\* a 17-byte plaintext has been encrypted to two blocks, the second chained
\* to the first, and the first is the first block of the ciphertext of its
\* first 16 bytes
C23_Witness ==
    /\ pc = "done" /\ call.op = "encrypt_cbc" /\ err = NoError
    /\ Len(call.data) = 17
    /\ Len(ret[1]) = 32
    /\ SubSeq(ret[1], 17, 32)
           = EncryptBlock(XorBytes(SubSeq(call.data, 17, 17) \o Repeat(15, 15),
                                   SubSeq(ret[1], 1, 16)))
    /\ SubSeq(ret[1], 17, 32)
           # EncryptBlock(XorBytes(SubSeq(call.data, 17, 17) \o Repeat(15, 15), call.iv))
    /\ SubSeq(ret[1], 1, 16)
           = SubSeq(EncryptCbcOf(SubSeq(call.data, 1, 16), call.iv).ret[1], 1, 16)

\* C26: _key_expansion of Kuznyechik returns 10 round keys of 16 bytes, the
\* first two the halves of the key; with C_n the linear transform of the
\* block of 15 zero bytes and the byte n, iteration i of 4 takes the last two
\* keys through 8 sub-rounds with C_(8i+1)..C_(8i+8) and appends the pair it
\* ends with; a sub-round XORs the constant into the first of the pair,
\* substitutes, applies the linear transform, XORs the second of the pair in,
\* and the pair becomes that and the old first.
C26_KeySchedule ==
    (pc = "done" /\ call.op = "init" /\ call.alg = "GOST" /\ err = NoError)
        => LET key == call.data
               c(n) == GOST_l_transform(Repeat(0, 15) \o <<n>>)
               Sub(p, n) ==
                   ByValue(p, <<XorBytes(GOST_l_transform(GOST_s_transform(
                                             XorBytes(p[1], c(n)))), p[2]), p[1]>>)
               Iter(p, i) ==
                   Sub(Sub(Sub(Sub(Sub(Sub(Sub(Sub(p, 8 * i + 1), 8 * i + 2), 8 * i + 3),
                       8 * i + 4), 8 * i + 5), 8 * i + 6), 8 * i + 7), 8 * i + 8)
               rk == cipher.round_keys
           IN  /\ Len(rk) = 10
               /\ \A n \in 1..10 : Len(rk[n]) = 16
               /\ rk[1] = SubSeq(key, 1, 16) /\ rk[2] = SubSeq(key, 17, 32)
               /\ \A i \in 0..3 :
                      <<rk[2 * i + 3], rk[2 * i + 4]>> = Iter(<<rk[2 * i + 1], rk[2 * i + 2]>>, i)

\* a Kuznyechik instance has been constructed from a 32-byte key, and its
\* third key is not the first half of the key
C26_Witness ==
    /\ pc = "done" /\ call.op = "init" /\ call.alg = "GOST" /\ err = NoError
    /\ Len(call.data) = 32
    /\ Len(cipher.round_keys) = 10
    /\ cipher.round_keys[1] \o cipher.round_keys[2] = call.data
    /\ cipher.round_keys[3] # cipher.round_keys[1]
    /\ cipher.round_keys[10] # cipher.round_keys[8]

\* C26 as the specification words the sub-round: substitution, linear
\* transform, XOR with the constant, XOR with the second of the pair, swap
C26_KeyScheduleAsStated ==
    (pc = "done" /\ call.op = "init" /\ call.alg = "GOST" /\ err = NoError)
        => LET key == call.data
               c(n) == GOST_l_transform(Repeat(0, 15) \o <<n>>)
               Sub(p, n) ==
                   ByValue(p, <<XorBytes(XorBytes(GOST_l_transform(GOST_s_transform(p[1])),
                                                  c(n)), p[2]), p[1]>>)
               Iter(p, i) ==
                   Sub(Sub(Sub(Sub(Sub(Sub(Sub(Sub(p, 8 * i + 1), 8 * i + 2), 8 * i + 3),
                       8 * i + 4), 8 * i + 5), 8 * i + 6), 8 * i + 7), 8 * i + 8)
               rk == cipher.round_keys
           IN  /\ Len(rk) = 10
               /\ \A n \in 1..10 : Len(rk[n]) = 16
               /\ rk[1] = SubSeq(key, 1, 16) /\ rk[2] = SubSeq(key, 17, 32)
               /\ \A i \in 0..3 :
                      <<rk[2 * i + 3], rk[2 * i + 4]>> = Iter(<<rk[2 * i + 1], rk[2 * i + 2]>>, i)

(***************************************************************************)
(* Properties of the hash specification                                    *)
(***************************************************************************)

\* C5: for data of every length, hash_sm3 returns 32 bytes, hash_streebog
\* with digest_size 32 returns 32 bytes and with digest_size 64 returns 64
\* bytes; none of them raises.
C5_DigestLength ==
    /\ (pc = "done" /\ call.op = "hash_sm3")
           => (err = NoError /\ Len(ret[1]) = 32)
    /\ (pc = "done" /\ call.op = "hash_streebog" /\ call.size \in {32, 64})
           => (err = NoError /\ Len(ret[1]) = call.size)

\* C25: the digest of an SM3 object that was given t bytes appends 0x80, the
\* least number of zero bytes that brings the buffer to 56 modulo 64, and
\* 8 * t in 8 bytes, most significant first; what is then in the buffer is a
\* multiple of 64 bytes, one block when t mod 64 <= 55 and two otherwise,
\* which are compressed in order; the buffer is empty afterwards and the 32
\* bytes returned are the eight words of the state, most significant byte
\* first.
C25_SM3Padding ==
    (pc = "done" /\ call.op = "hash_sm3")
        => LET t == Len(call.data)
               r == t % 64
               zeros == CHOOSE k \in 0..63 :
                            /\ (r + 1 + k) % 64 = 56
                            /\ \A j \in 0..(k - 1) : (r + 1 + j) % 64 # 56
               bits == 8 * t
               final == SubSeq(call.data, t - r + 1, t) \o <<128>> \o Repeat(0, zeros)
                            \o <<0, 0, 0, 0, (bits \div 2^24) % 256, (bits \div 2^16) % 256,
                                 (bits \div 2^8) % 256, bits % 256>>
           IN  /\ Len(final) % 64 = 0
               /\ Len(final) = IF r <= 55 THEN 64 ELSE 128
               /\ hash[1].h = SM3_fold_blocks(SM3_fold_blocks(SM3_IV, call.data, 0), final, 0)
               /\ hash[1].buffer = <<>>
               /\ hash[1].length = t
               /\ err = NoError
               /\ Len(ret[1]) = 32
               /\ \A i \in 1..8 : SubSeq(ret[1], 4 * i - 3, 4 * i) = hash[1].h[i]

\* 56 bytes have been hashed: the padding does not fit their block, and two
\* blocks were compressed
C25_Witness ==
    /\ pc = "done" /\ call.op = "hash_sm3"
    /\ Len(call.data) = 56
    /\ err = NoError
    /\ hash[1].buffer = <<>>
    /\ hash[1].h = SM3_compress(
                       SM3_compress(SM3_IV, call.data \o <<128>> \o Repeat(0, 7)),
                       Repeat(0, 56) \o <<0, 0, 0, 0, 0, 0, 1, 192>>)
    /\ ret = <<SM3_join(hash[1].h)>>

\* C18: after the digest of hash_streebog the accumulator _n holds the number
\* of bits of the message, 512 for each block update consumed and 8 for each
\* byte left in the buffer, as a 512-bit number in the byte order of
\* _add_mod512 (the byte at index 0 the least significant).
C18_LengthAccumulator ==
    (pc = "done" /\ call.op = "hash_streebog" /\ err = NoError)
        => LET bits == 8 * Len(call.data)
           IN  hash[1].n = <<bits % 256, (bits \div 256) % 256, (bits \div 65536) % 256>>
                               \o Repeat(0, 61)

(***************************************************************************)
(* Properties of the manager specification                                 *)
(***************************************************************************)

\* C10: the EncryptedData a call of encrypt(plaintext, algorithm) returns
\* has the 16-byte iv drawn in that call, which is not an argument, no tag,
\* the requested algorithm, and as its ciphertext the CBC encryption of the
\* padded plaintext by the registered cipher: block i is the encryption of
\* padded block i xored with ciphertext block i-1, the iv for the first.
C10_EncryptResultShape ==
    (pc = "done" /\ call.op = "encrypt" /\ err = NoError)
        => LET e == ret[1]
               sm4 == call.alg \in {"SM4-CBC", "SM4-GCM"}
               pad_len == 16 - (Len(call.data) % 16)
               padded == call.data \o Repeat(pad_len, pad_len)
               Block(data, i) == SubSeq(data, 16 * i + 1, 16 * i + 16)
               E(block) == IF sm4 THEN SM4_encrypt_block(mgr.sm4_cipher[1], block)
                           ELSE GOST_encrypt_block(mgr.gost_cipher[1], block)
           IN  /\ call.alg \in {"SM4-CBC", "SM4-GCM", "GOST-KUZNYECHIK-CBC",
                                "GOST-KUZNYECHIK-GCM"}
               /\ Len(e.iv) = 16 /\ e.iv = token /\ call.iv = <<>>
               /\ e.tag = <<>>
               /\ e.algorithm = call.alg
               /\ Len(e.ciphertext) = Len(padded)
               /\ \A i \in 0..((Len(padded) \div 16) - 1) :
                      Block(e.ciphertext, i)
                          = E(XorBytes(Block(padded, i),
                                       IF i = 0 THEN e.iv ELSE Block(e.ciphertext, i - 1)))

\* a request for GCM has returned two chained Kuznyechik blocks
C10_Witness ==
    /\ pc = "done" /\ call.op = "encrypt" /\ err = NoError
    /\ call.alg = "GOST-KUZNYECHIK-GCM"
    /\ Len(call.data) = 16
    /\ Len(ret[1].ciphertext) = 32
    /\ ret[1].iv = token

\* C11: encrypt and decrypt choose the cipher by the algorithm tag alone (the
\* SM4 tags the SM4 cipher, the Kuznyechik tags the Kuznyechik cipher); with
\* no cipher initialised for the tag, or a tag of no cipher, the call fails
\* with the error of an algorithm the manager does not serve and returns
\* nothing; neither call changes the registry.
C11_FacadeDispatch ==
    [][(pc = "idle" /\ pc' = "done" /\ call'.op \in {"encrypt", "decrypt"})
          => LET sm4 == call'.alg \in {"SM4-CBC", "SM4-GCM"}
                 gost == call'.alg \in {"GOST-KUZNYECHIK-CBC", "GOST-KUZNYECHIK-GCM"}
                 chosen == IF sm4 THEN mgr.sm4_cipher ELSE IF gost THEN mgr.gost_cipher ELSE <<>>
             IN  /\ mgr' = mgr
                 /\ chosen = <<>>
                        => /\ err' \in {CipherNotInitialized, UnsupportedAlgorithm}
                           /\ ret' = <<>>
                 /\ (chosen # <<>> /\ call'.op = "decrypt")
                        => LET r == IF sm4
                                    THEN SM4_decrypt_cbc(chosen[1], call'.data, call'.iv)
                                    ELSE GOST_decrypt_cbc(chosen[1], PI_INV, call'.data, call'.iv)
                           IN  err' = r.err /\ ret' = r.ret
                 /\ (chosen # <<>> /\ call'.op = "encrypt")
                        => LET r == IF sm4
                                    THEN SM4_encrypt_cbc(chosen[1], call'.data, token')
                                    ELSE GOST_encrypt_cbc(chosen[1], call'.data, token')
                           IN  err' = NoError /\ ret'[1].ciphertext = r.ret[1]
       ]_vars

\* a decrypt under an SM4 tag has been refused while only the Kuznyechik
\* cipher is initialised
C11_Witness ==
    /\ pc = "done" /\ call.op = "decrypt" /\ call.alg = "SM4-GCM"
    /\ mgr.sm4_cipher = <<>> /\ mgr.gost_cipher # <<>>
    /\ err = CipherNotInitialized /\ ret = <<>>

\* C17: generate_key returns 16 bytes for the SM4 tags and 32 bytes for the
\* Kuznyechik tags, and the initialisation of the cipher with the generated
\* key succeeds; generate_key raises the unsupported-algorithm error for the
\* hash tags; generate_iv returns 16 bytes, an IV that encrypt_cbc and
\* decrypt_cbc of the registered ciphers do not refuse.
C17_GeneratedLengths ==
    /\ (pc = "done" /\ call.op = "generate_key")
           => IF call.alg \in {"SM4-CBC", "SM4-GCM"}
              THEN err = NoError /\ Len(ret[1]) = 16
              ELSE IF call.alg \in {"GOST-KUZNYECHIK-CBC", "GOST-KUZNYECHIK-GCM"}
              THEN err = NoError /\ Len(ret[1]) = 32
              ELSE call.alg \in {"SM3", "GOST-STREEBOG-256", "GOST-STREEBOG-512"}
                       => (err = UnsupportedAlgorithm /\ ret = <<>>)
    /\ (pc = "done" /\ call.op \in {"initialize_sm4", "initialize_gost"}
                    /\ call.kind = "generated")
           => /\ err = NoError
              /\ call.op = "initialize_sm4"
                     => (mgr.keys.sm4 = <<call.data>> /\ Len(mgr.sm4_cipher[1]) = SM4_ROUNDS)
              /\ call.op = "initialize_gost"
                     => (mgr.keys.gost = <<call.data>> /\ Len(mgr.gost_cipher[1]) = 10)
    /\ (pc = "done" /\ call.op = "generate_iv")
           => /\ err = NoError /\ Len(ret[1]) = 16
              /\ mgr.sm4_cipher # <<>>
                     => /\ SM4_encrypt_cbc(mgr.sm4_cipher[1], <<>>, ret[1]).err = NoError
                        /\ SM4_decrypt_cbc(mgr.sm4_cipher[1], Bytes(60, 16), ret[1]).err
                               # InvalidIVLength
              /\ mgr.gost_cipher # <<>>
                     => /\ GOST_encrypt_cbc(mgr.gost_cipher[1], <<>>, ret[1]).err = NoError
                        /\ GOST_decrypt_cbc(mgr.gost_cipher[1], PI_INV, Bytes(60, 16),
                                            ret[1]).err # InvalidIVLength

\* the SM4 cipher has been initialised with a generated key of 16 bytes
C17_Witness ==
    /\ pc = "done" /\ call.op = "initialize_sm4" /\ call.kind = "generated"
    /\ Len(call.data) = 16
    /\ err = NoError
    /\ mgr.keys.sm4 = <<call.data>>

\* _key_expansion of SM4 and of GOSTKuznyechik for the keys of their lengths
Expanded ==
    [key \in {k \in Keys : Len(k) \in {SM4_KEY_SIZE, GOST_KEY_SIZE}} |->
        IF Len(key) = SM4_KEY_SIZE THEN SM4_key_expansion(key) ELSE GOST_key_expansion(key)]

\* for each suite the manager has a key exactly when it has a cipher, and the
\* round keys of the cipher are those of that key
RegistryConsistent ==
    /\ (mgr.keys.sm4 = <<>>) <=> (mgr.sm4_cipher = <<>>)
    /\ (mgr.keys.gost = <<>>) <=> (mgr.gost_cipher = <<>>)
    /\ mgr.keys.sm4 # <<>>
           => /\ Len(mgr.keys.sm4[1]) = 16
              /\ mgr.keys.sm4[1] \in Keys
              /\ mgr.sm4_cipher = <<Expanded[mgr.keys.sm4[1]]>>
    /\ mgr.keys.gost # <<>>
           => /\ Len(mgr.keys.gost[1]) = 32
              /\ mgr.keys.gost[1] \in Keys
              /\ mgr.gost_cipher = <<Expanded[mgr.keys.gost[1]]>>

\* C28: between the calls of the manager, each suite has a stored key exactly
\* when it has a registered cipher, whose round keys are the expansion of that
\* key; initialize_sm4 and initialize_gost with a key of the wrong length
\* raise and leave the manager as it was, with a key of the right length they
\* register the cipher of that key and the key; neither changes the cipher or
\* the key of the other suite.
C28_RegistryConsistent ==
    /\ []RegistryConsistent
    /\ [][/\ call'.op = "initialize_sm4" /\ call' # call
              => /\ mgr'.gost_cipher = mgr.gost_cipher
                 /\ mgr'.keys.gost = mgr.keys.gost
                 /\ IF Len(call'.data) = 16
                    THEN err' = NoError /\ mgr'.keys.sm4 = <<call'.data>>
                    ELSE err' = InvalidKeyLength /\ mgr' = mgr
          /\ call'.op = "initialize_gost" /\ call' # call
              => /\ mgr'.sm4_cipher = mgr.sm4_cipher
                 /\ mgr'.keys.sm4 = mgr.keys.sm4
                 /\ IF Len(call'.data) = 32
                    THEN err' = NoError /\ mgr'.keys.gost = <<call'.data>>
                    ELSE err' = InvalidKeyLength /\ mgr' = mgr
         ]_vars

\* initialize_sm4 with a 17-byte key has raised on a manager that has both
\* ciphers, which it keeps
C28_Witness ==
    /\ pc = "done" /\ call.op = "initialize_sm4"
    /\ Len(call.data) = 17
    /\ err = InvalidKeyLength
    /\ mgr.sm4_cipher # <<>> /\ mgr.gost_cipher # <<>>
    /\ mgr.keys.sm4 # <<>> /\ mgr.keys.sm4[1] # SubSeq(call.data, 1, 16)
    /\ RegistryConsistent

\* C29: the decrypt of the EncryptedData e that an SM4-CBC encrypt of p
\* returned, after whatever encrypt, decrypt, hash_sm3, hash_streebog and
\* initialize_gost calls were made on the manager since and no initialize_sm4,
\* returns p; after an initialize_sm4 that left the manager with another key,
\* it is the decrypt_cbc of the cipher of that key, and does not return p.
C29_KeptRoundTrip ==
    (pc = "done" /\ call.op = "decrypt" /\ call.kind = "kept")
        => /\ ~kept.rekeyed => (err = NoError /\ ret = <<kept.plaintext>>)
           /\ (kept.rekeyed /\ mgr.keys.sm4 # <<kept.key>>)
                  => LET new == SM4_decrypt_cbc(SM4_key_expansion(mgr.keys.sm4[1]),
                                                kept.data.ciphertext, kept.data.iv)
                     IN  /\ err = new.err /\ ret = new.ret
                         /\ ret # <<kept.plaintext>>

\* what was kept has been decrypted to its plaintext after an initialize_gost
\* and one more call
C29_Witness ==
    /\ pc = "done" /\ call.op = "decrypt" /\ call.kind = "kept"
    /\ ~kept.rekeyed /\ kept.later = 2
    /\ mgr.gost_cipher # <<>>
    /\ PI_INV # [i \in 1..256 |-> 0]
    /\ err = NoError /\ ret = <<kept.plaintext>>
    /\ kept.data.ciphertext # SM4_pad(kept.plaintext)

\* C30: encrypt under SM4_GCM or GOST_KUZNYECHIK_GCM returns, for the same
\* plaintext and IV, the ciphertext encrypt returns under the CBC tag of the
\* same cipher, with no tag and the GCM tag as its algorithm; decrypt of a
\* value under a GCM tag has the outcome of decrypt of the same ciphertext
\* and IV under the CBC tag, whatever the tag field holds.
C30_GcmServedByCbc ==
    LET gcm == {"SM4-GCM", "GOST-KUZNYECHIK-GCM"}
        cbc_tag == IF call.alg = "SM4-GCM" THEN "SM4-CBC" ELSE "GOST-KUZNYECHIK-CBC"
    IN  /\ (pc = "done" /\ call.op = "encrypt" /\ call.alg \in gcm)
               => LET cbc == Mgr_encrypt(mgr, call.data, cbc_tag, token)
                  IN  /\ err = cbc.err
                      /\ err = NoError
                             => /\ ret[1].ciphertext = cbc.ret[1].ciphertext
                                /\ ret[1].iv = cbc.ret[1].iv
                                /\ cbc.ret[1].algorithm = cbc_tag
                                /\ ret[1].algorithm = call.alg
                                /\ ret[1].tag = <<>>
        /\ (pc = "done" /\ call.op = "decrypt" /\ call.alg \in gcm)
               => LET cbc == Mgr_decrypt(mgr, PI_INV,
                                 [ciphertext |-> call.data, iv |-> call.iv,
                                  tag |-> Repeat(0, 16), algorithm |-> cbc_tag])
                  IN  err = cbc.err /\ ret = cbc.ret /\ decrypted = cbc.plaintext

\* the value encrypt returned under SM4_GCM, which has no tag, has been
\* decrypted to the plaintext
C30_Witness ==
    /\ pc = "done" /\ call.op = "decrypt" /\ call.kind = "roundtrip"
    /\ call.alg = "SM4-GCM" /\ held.ok /\ held.alg = "SM4-GCM"
    /\ err = NoError
    /\ ret = <<held.plaintext>> /\ Len(held.plaintext) > 0

(***************************************************************************)
(* Properties of the streaming specification                               *)
(***************************************************************************)

\* C12: the first digest of an SM3 or GOSTStreebog object that was given data
\* d in chunks, however d was cut into them, has the outcome (the bytes or the
\* exception, and the object left behind) of the digest of a new object that
\* was given d in one update.
C12_StreamingEquivalence ==
    (pc = "done" /\ call.op = "digest" /\ fed.digests = 1)
        => LET one == IF fed.kind = "SM3" THEN SM3_hash(fed.data)
                      ELSE Streebog_hash(fed.data, hash[1].digest_size)
           IN  err = one.err /\ ret = one.ret /\ hash[1] = one.self

\* 163 bytes given as 33 and 130, one chunk closing a block and holding two
\* more, have been digested by SM3
C12_Witness ==
    /\ pc = "done" /\ call.op = "digest" /\ fed.digests = 1
    /\ fed.kind = "SM3" /\ fed.ops = 3
    /\ Len(fed.data) = 163
    /\ err = NoError
    /\ ret = SM3_hash(fed.data).ret

\* C15: an SM3 object takes update and digest in any order and number and
\* never raises; digest changes the object: it leaves the buffer empty, the
\* byte count as it was and the padded blocks compressed into the state it
\* returns; an update or a digest after a digest works on that state, so the
\* object is not the one a new object with the same data would be, and a
\* second digest does not return the hash of the data.
C15_NoFinalizedState ==
    (fed.kind = "SM3" /\ pc = "done" /\ call.op \in {"update", "digest"})
        => /\ err = NoError
           /\ hash[1].length = Len(fed.data)
           /\ call.op = "digest"
                  => /\ hash[1].buffer = <<>>
                     /\ ret = <<SM3_join(hash[1].h)>>
                     /\ hash[1].h # SM3_IV
           /\ (call.op = "update" /\ fed.digests >= 1)
                  => hash[1] # SM3_update(SM3_new, fed.data)
           /\ (call.op = "digest" /\ fed.digests >= 2)
                  => ret # SM3_hash(fed.data).ret

\* an SM3 object that has digested 33 bytes has been asked for a digest again
C15_Witness ==
    /\ fed.kind = "SM3" /\ pc = "done" /\ call.op = "digest"
    /\ fed.digests = 2 /\ fed.ops = 3
    /\ Len(fed.data) = 33
    /\ err = NoError
    /\ hash[1].buffer = <<>> /\ hash[1].length = 33

\* C19: the compression function of GOSTStreebog is the substitution, the
\* permutation of the bytes and the linear transform, in rounds, and not one
\* S-box substitution: the state g(h, n, m) that update leaves after the
\* first block m, with h the initial state and n zero, is not the bytes
\* PI[h[i] xor n[i]] xor m[i] xor h[i].
C19_CompressionStructure ==
    (pc = "done" /\ call.op = "update" /\ fed.kind = "STREEBOG" /\ fed.digests = 0
                 /\ Len(fed.data) = 64)
        => LET h0 == Repeat(IF hash[1].digest_size = 32 THEN 1 ELSE 0, 64)
               m == fed.data
           IN  hash[1].h # SubSeq([i \in 1..64 |->
                                      Xor8(Xor8(GOST_PI[h0[i] + 1], m[i]), h0[i])], 1, 64)

\* C24: when update returns on an SM3 or GOSTStreebog object that has been
\* given t bytes since it was made and has not been digested, the buffer
\* holds t mod 64 bytes, fewer than 64, which are the last t mod 64 bytes
\* given, and the state is the one that the first floor(t/64) blocks of the
\* bytes given, compressed once each in the order given, lead to from the
\* initial state.
C24_BufferInvariant ==
    (pc = "done" /\ call.op = "update" /\ fed.digests = 0)
        => LET t == Len(fed.data)
               self == hash[1]
           IN  /\ Len(self.buffer) = t % 64
               /\ Len(self.buffer) < 64
               /\ self.buffer = SubSeq(fed.data, t - (t % 64) + 1, t)
               /\ fed.kind = "SM3"
                      => /\ self.h = SM3_fold_blocks(SM3_IV, fed.data, 0)
                         /\ self.length = t
               /\ fed.kind = "STREEBOG"
                      => [self EXCEPT !.buffer = <<>>]
                         = Streebog_fold_blocks(Streebog_init(self.digest_size).self[1],
                                                fed.data, 0)

\* a GOSTStreebog object has been given 33 and then 64 bytes: one block is
\* compressed and 33 bytes are pending, the last 33 given
C24_Witness ==
    /\ pc = "done" /\ call.op = "update" /\ fed.digests = 0
    /\ fed.kind = "STREEBOG" /\ fed.ops = 2
    /\ Len(fed.data) = 97 /\ Len(call.data) = 64
    /\ Len(hash[1].buffer) = 33
    /\ hash[1].buffer = SubSeq(fed.data, 65, 97)
    /\ hash[1].h = Streebog_g(Streebog_init(hash[1].digest_size).self[1].h, Repeat(0, 64),
                              SubSeq(fed.data, 1, 64))

(***************************************************************************)
(* Properties of the specification of independent hash computations        *)
(***************************************************************************)

\* C27: however the update and digest calls of computations that each own
\* their SM3 or GOSTStreebog object interleave, the digest of a computation
\* has the outcome of the one-call hash of the data of that computation; a
\* new object is in the initial state of its class, and SM3.IV stays the
\* eight words of the class.
C27_IndependentHashes ==
    /\ IV = SM3_IV
    /\ \A c \in Computations :
           LET own == owned.of[c]
           IN  /\ (own.kind = "SM3" /\ own.ops = 0 /\ ~own.digested)
                      => own.obj = <<[h |-> SM3_IV, buffer |-> <<>>, length |-> 0]>>
               /\ (own.kind = "STREEBOG" /\ own.ops = 0 /\ ~own.digested)
                      => own.obj = Streebog_init(own.size).self
               /\ own.data = OwnStream(c, Len(own.data))
               /\ (own.kind = "SM3" /\ own.digested)
                      => /\ own.err = NoError
                         /\ own.ret = OneCall[c][Len(own.data)].SM3.ret
               /\ (own.kind = "STREEBOG" /\ own.digested)
                      => /\ own.err = OneCall[c][Len(own.data)].STREEBOG[own.size].err
                         /\ own.ret = OneCall[c][Len(own.data)].STREEBOG[own.size].ret

\* an SM3 and a GOSTStreebog computation have both digested 80 bytes given
\* in two chunks, one having called between two calls of the other
C27_Witness ==
    /\ owned.of[1].kind = "SM3" /\ owned.of[2].kind = "STREEBOG"
    /\ owned.of[1].digested /\ owned.of[2].digested
    /\ owned.mixed
    /\ Len(owned.of[1].data) = 80 /\ Len(owned.of[2].data) = 80
    /\ owned.of[1].ops = 2 /\ owned.of[2].ops = 2
    /\ owned.of[2].err = NoError
    /\ owned.of[1].ret = OneCall[1][80].SM3.ret
    /\ owned.of[1].data # owned.of[2].data

(***************************************************************************)
(* Properties of the concurrent specification                              *)
(***************************************************************************)

\* C14: whatever the threads do in between - other calls of encrypt_cbc and
\* decrypt_cbc on the same instance, and the construction of further
\* Kuznyechik instances, which writes PI_INV again - a call on the shared
\* instance ends with the result it has when nothing runs beside it, and
\* round_keys stays as it is.
C14_SharedInstanceSafe ==
    [][/\ cipher # NoCipher => cipher' = cipher
       /\ \A t \in Callers :
              (callers[t].pc # "done" /\ callers'[t].pc = "done")
                  => LET c == callers'[t]
                         alone == Alone[cipher.alg][c.op]
                     IN  c.err = alone.err /\ c.ret = alone.ret
      ]_vars

\* a decrypt_cbc on the shared Kuznyechik instance has returned its plaintext
\* while the other thread is inside decrypt_block and a construction is half
\* way through PI_INV
C14_Witness ==
    /\ cipher.alg = "GOST"
    /\ callers[1].pc = "done" /\ callers[1].op = "decrypt_cbc"
    /\ callers[1].err = NoError /\ callers[1].ret = <<Repeat(9, 13)>>
    /\ callers[2].pc = "running" /\ callers[2].round = 4
    /\ ctor.pc = "filling" /\ ctor.i = 128

====
